---- MODULE Spec2Model ----
(***************************************************************************)
(* A model of FRED's Place_List (src/src/Place_List.cc): the place         *)
(* registry, group-quarters partitioning, hospital selection and panel     *)
(* assignment, and household shelter / evacuation scheduling.              *)
(*                                                                         *)
(* A Place* is modelled by the allocation number of the object: the k-th   *)
(* object created by add_place is pointer k, and NULL is 0.  The C++       *)
(* vector `places` is 0-based, the sequence `places` here is 1-based, so   *)
(* the C++ element places[i] is places[i + 1] here.                        *)
(***************************************************************************)
EXTENDS Integers, Sequences, FiniteSets, TLC

VARIABLES
  \* ---- Place registry (Place_List members)
  places,            \* vector<Place*> places: the objects, in creation order
  place_label_map,   \* LabelMapT* place_label_map: label -> id
  next_place_id,     \* int next_place_id
  households,        \* vector<Place*> households
  neighborhoods,     \* vector<Place*> neighborhoods
  schools,           \* vector<Place*> schools
  workplaces,        \* vector<Place*> workplaces
  hospitals,         \* vector<Place*> hospitals
  call,              \* the last registry operation and what it returned
  added,             \* label -> the pointer add_place returned when it created the place
  \* ---- Group quarters (Household and Person objects, setup_group_quarters locals)
  hh,                \* the Household objects in `households` order: subtype flag, units, enrollees
  person_hh,         \* Person::household of every person (index into hh)
  gq_orig,           \* hh as loaded, before setup_group_quarters
  gq,                \* setup_group_quarters: program counter and locals
  \* ---- Hospital selection and primary-care panel assignment
  hosp,              \* the Hospital objects a selection walks, as seen from the person's household
  mode,              \* which selection operation this run exercises
  sel,               \* the last selection call: candidate weights and what it returned
  panel,             \* Hospital_ID_total/current_assigned_size_map and the initialised flag
  tot_pop_size,      \* Global::Pop.get_population_size()
  panel_size,        \* Place_List::Hospital_overall_panel_size
  ncalls,            \* selection calls made so far
  query,             \* the last selection call: its flags and the radius in force
  \* ---- Household shelter and evacuation scheduling
  params,            \* the static shelter and HAZEL parameters of Place_List
  sheltering,        \* per household (in households order): shelter flag, start and end day
  sched,             \* select_households_for_shelter / _for_evacuation: position and locals
  \* ---- The tail shared by the selections, taken alone
  walk,              \* hosp_probs as the candidate loop left them, the draw, what was returned
  \* ---- Household-hospital mapping
  hh_label_hosp_label_map,             \* std::map<string, string>: household label -> hospital label
  hosp_label_hosp_id_map,              \* std::map<string, int>: hospital label -> index in hospitals
  Household_hospital_map_file_exists,  \* static bool
  map_file,          \* the mapping file on disk: configured name, presence, pairs, times written
  asg,               \* the run: position, the loaded households, counters of the assignment
  \* ---- Bounding box of the region
  min_lat, max_lat, min_lon, max_lon,  \* fred::geo members of Place_List
  geo_places,        \* kind, latitude and longitude of the places the readers registered
  \* ---- Counties and census tracts
  counties,                  \* vector<County*>: the fips code of each object
  census_tracts,             \* vector<Census_Tract*>: the fips code of each object
  fips_to_county_map,        \* std::map<int, int>
  fips_to_census_tract_map,  \* std::map<long int, int>
  fips_seen,         \* the records read: the reader and the fips field of each
  \* ---- read_group_quarters_file, record by record
  gqf,               \* the means in force, place_subtype, and the records read with what they were given
  \* ---- setup_households
  setup,             \* position, the households with their occupants, the flags read, what was called
  \* ---- reassign_workers
  rw,                \* the call in progress, the places with their workers, the last target handled
  \* ---- The loops of shelter_household and select_households_for_evacuation, draw by draw
  lp,                \* the parameters, the locals, and the iterations and draws made so far
  \* ---- read_all_places, step by step
  ra                 \* position, the demes, the box, the households, the layers, load_completed

regvars == <<places, place_label_map, next_place_id, households, neighborhoods,
             schools, workplaces, hospitals, call, added>>

gqvars == <<hh, person_hh, gq_orig, gq>>

hospvars == <<hosp, mode, sel, panel, tot_pop_size, panel_size, ncalls, query>>

shelvars == <<params, sheltering, sched>>

walkvars == <<walk>>

mapvars == <<hh_label_hosp_label_map, hosp_label_hosp_id_map,
             Household_hospital_map_file_exists, map_file, asg>>

geovars == <<min_lat, max_lat, min_lon, max_lon, geo_places>>

fipsvars == <<counties, census_tracts, fips_to_county_map, fips_to_census_tract_map, fips_seen>>

gqfvars == <<gqf>>

setupvars == <<setup>>

rwvars == <<rw>>

lpvars == <<lp>>

ravars == <<ra>>

vars == <<regvars, gqvars, hospvars, shelvars, walkvars, mapvars, geovars, fipsvars, gqfvars, setupvars, rwvars, lpvars, ravars>>

\* The members the registry operations never touch.
NotRegistry == <<gqvars, hospvars, shelvars, walkvars, mapvars, geovars, fipsvars, gqfvars, setupvars, rwvars, lpvars, ravars>>

\* The members setup_group_quarters never touches.
NotGQ == <<regvars, hospvars, shelvars, walkvars, mapvars, geovars, fipsvars, gqfvars, setupvars, rwvars, lpvars, ravars>>

\* The members the hospital selection operations never touch.
NotHospital == <<regvars, gqvars, shelvars, walkvars, mapvars, geovars, fipsvars, gqfvars, setupvars, rwvars, lpvars, ravars>>

\* The members the shelter and evacuation scheduling never touches.
NotShelter == <<regvars, gqvars, hospvars, walkvars, mapvars, geovars, fipsvars, gqfvars, setupvars, rwvars, lpvars, ravars>>

\* The members the selection tail taken alone never touches.
NotWalk == <<regvars, gqvars, hospvars, shelvars, mapvars, geovars, fipsvars, gqfvars, setupvars, rwvars, lpvars, ravars>>

\* The members the bounding box never touches.
NotGeo == <<regvars, gqvars, hospvars, shelvars, walkvars, mapvars, fipsvars, gqfvars, setupvars, rwvars, lpvars, ravars>>

\* The members the county and census-tract lists never touch.
NotFips == <<regvars, gqvars, hospvars, shelvars, walkvars, mapvars, geovars, gqfvars, setupvars, rwvars, lpvars, ravars>>

\* The members the household-hospital mapping never touches.
NotMapping == <<regvars, gqvars, hospvars, shelvars, walkvars, geovars, fipsvars, gqfvars, setupvars, rwvars, lpvars, ravars>>

\* The members the group-quarters reader taken record by record never touches.
NotGQFile == <<regvars, gqvars, hospvars, shelvars, walkvars, mapvars, geovars, fipsvars, setupvars, rwvars, lpvars, ravars>>

\* The members setup_households never touches.
NotSetup == <<regvars, gqvars, hospvars, shelvars, walkvars, mapvars, geovars, fipsvars, gqfvars, rwvars, lpvars, ravars>>

\* The members the reassignment of workers never touches.
NotReassign == <<regvars, gqvars, hospvars, shelvars, walkvars, mapvars, geovars, fipsvars, gqfvars, setupvars, lpvars, ravars>>

\* The members the loops taken draw by draw never touch.
NotLoops == <<regvars, gqvars, hospvars, shelvars, walkvars, mapvars, geovars, fipsvars, gqfvars, setupvars, rwvars, ravars>>

\* The members read_all_places taken step by step never touches.
NotLoad == <<regvars, gqvars, hospvars, shelvars, walkvars, mapvars, geovars, fipsvars, gqfvars, setupvars, rwvars, lpvars>>

NULL == 0

\* The empty function (an empty std::map).
EmptyMap == [x \in {} |-> 0]

\* m with key k bound to v.
MapPut(m, k, v) == [x \in (DOMAIN m) \cup {k} |-> IF x = k THEN v ELSE m[x]]

(***************************************************************************)
(* Place registry                                                          *)
(***************************************************************************)

\* Labels passed to add_place and get_place_from_label; "-1" is the sentinel
\* get_place_from_label tests for.
Labels == {"-1", "H1", "W1"}

\* The type characters add_place's switch constructs a variant for.
Types == {"H", "W", "O", "N", "S", "C", "M"}

\* Subtype characters (none, college).
Subtypes == {"X", "D"}

is_household(place) == place.type = "H"
is_neighborhood(place) == place.type = "N"
is_school(place) == place.type = "S"
is_workplace(place) == place.type = "W"
is_hospital(place) == place.type = "M"

\* int id = next_place_id++ : the id handed out and the counter afterwards.
get_new_place_id(next) == [id |-> next, next |-> next + 1]

\* The element the C++ expression places[i] reads.  Reading past the end of the
\* vector is undefined: any object, or a null/garbage pointer.
places_at(i) ==
  IF i + 1 \in DOMAIN places THEN {i + 1} ELSE {NULL} \cup DOMAIN places

\* The lookup without the sentinel test.
get_place_from_label_no_sentinel(s) ==
  IF s \in DOMAIN place_label_map
  THEN places_at(place_label_map[s])
  ELSE {NULL}

\* The set of values get_place_from_label(s) can return.
get_place_from_label(s) ==
  IF s = "-1" THEN {NULL}
  ELSE IF s \in DOMAIN place_label_map
       THEN places_at(place_label_map[s])
       ELSE {NULL}

\* A plausible slip: the label map records the counter after the increment.
add_place_stale_id(label, type, subtype) ==
  IF label \in DOMAIN place_label_map
  THEN /\ \E r \in get_place_from_label(label) :
            call' = [op |-> "add_place", label |-> label, dup |-> TRUE, ret |-> r]
       /\ UNCHANGED <<places, place_label_map, next_place_id, households,
                      neighborhoods, schools, workplaces, hospitals, added>>
  ELSE LET new == get_new_place_id(next_place_id)
           place == [id |-> new.id, label |-> label, type |-> type, subtype |-> subtype]
           ptr == Len(places) + 1
       IN /\ next_place_id' = new.next
          /\ place_label_map' = MapPut(place_label_map, label, new.next)
          /\ places' = Append(places, place)
          /\ households' = IF is_household(place) THEN Append(households, ptr) ELSE households
          /\ neighborhoods' = IF is_neighborhood(place) THEN Append(neighborhoods, ptr) ELSE neighborhoods
          /\ schools' = IF is_school(place) THEN Append(schools, ptr) ELSE schools
          /\ workplaces' = IF is_workplace(place) THEN Append(workplaces, ptr) ELSE workplaces
          /\ hospitals' = IF is_hospital(place) THEN Append(hospitals, ptr) ELSE hospitals
          /\ call' = [op |-> "add_place", label |-> label, dup |-> FALSE, ret |-> ptr]
          /\ added' = MapPut(added, label, ptr)

\* A plausible slip: the duplicate-label test is missing.
add_place_no_dedup(label, type, subtype) ==
  LET new == get_new_place_id(next_place_id)
      place == [id |-> new.id, label |-> label, type |-> type, subtype |-> subtype]
      ptr == Len(places) + 1
  IN /\ next_place_id' = new.next
     /\ place_label_map' = MapPut(place_label_map, label, new.id)
     /\ places' = Append(places, place)
     /\ households' = IF is_household(place) THEN Append(households, ptr) ELSE households
     /\ neighborhoods' = IF is_neighborhood(place) THEN Append(neighborhoods, ptr) ELSE neighborhoods
     /\ schools' = IF is_school(place) THEN Append(schools, ptr) ELSE schools
     /\ workplaces' = IF is_workplace(place) THEN Append(workplaces, ptr) ELSE workplaces
     /\ hospitals' = IF is_hospital(place) THEN Append(hospitals, ptr) ELSE hospitals
     /\ call' = [op |-> "add_place", label |-> label, dup |-> FALSE, ret |-> ptr]
     /\ added' = MapPut(added, label, ptr)

\* Place* add_place(label, type, subtype, lon, lat, census_tract_fips)
add_place(label, type, subtype) ==
  IF label \in DOMAIN place_label_map
  THEN \* duplicate label: return get_place_from_label(label)
       /\ \E r \in get_place_from_label(label) :
            call' = [op |-> "add_place", label |-> label, dup |-> TRUE, ret |-> r]
       /\ UNCHANGED <<places, place_label_map, next_place_id, households,
                      neighborhoods, schools, workplaces, hospitals, added>>
  ELSE LET new == get_new_place_id(next_place_id)
           place == [id |-> new.id, label |-> label, type |-> type, subtype |-> subtype]
           ptr == Len(places) + 1
       IN /\ next_place_id' = new.next
          /\ place_label_map' = MapPut(place_label_map, label, new.id)
          /\ places' = Append(places, place)
          /\ households' = IF is_household(place) THEN Append(households, ptr) ELSE households
          /\ neighborhoods' = IF is_neighborhood(place) THEN Append(neighborhoods, ptr) ELSE neighborhoods
          /\ schools' = IF is_school(place) THEN Append(schools, ptr) ELSE schools
          /\ workplaces' = IF is_workplace(place) THEN Append(workplaces, ptr) ELSE workplaces
          /\ hospitals' = IF is_hospital(place) THEN Append(hospitals, ptr) ELSE hospitals
          /\ call' = [op |-> "add_place", label |-> label, dup |-> FALSE, ret |-> ptr]
          /\ added' = MapPut(added, label, ptr)

AddPlace == \E label \in Labels, type \in Types, subtype \in Subtypes :
              add_place(label, type, subtype)

\* A caller looks a label up.
GetPlaceFromLabel ==
  /\ \E s \in Labels : \E r \in get_place_from_label(s) :
       call' = [op |-> "get_place_from_label", label |-> s, dup |-> FALSE, ret |-> r]
  /\ UNCHANGED <<places, place_label_map, next_place_id, households,
                 neighborhoods, schools, workplaces, hospitals, added>>

\* The registry after construction: no place, no label, the id counter at 0.
RegistryInit ==
  /\ places = <<>>
  /\ place_label_map = EmptyMap
  /\ next_place_id = 0
  /\ households = <<>>
  /\ neighborhoods = <<>>
  /\ schools = <<>>
  /\ workplaces = <<>>
  /\ hospitals = <<>>
  /\ call = [op |-> "none", label |-> "-1", dup |-> FALSE, ret |-> NULL]
  /\ added = EmptyMap

(***************************************************************************)
(* Group quarters: read_group_quarters_file and setup_group_quarters       *)
(***************************************************************************)

\* Bounds on the loaded population.
MaxRecords == 2
MaxUnits == 3
MaxSize == 5

\* Sum of a sequence of naturals.
RECURSIVE SeqSum(_)
SeqSum(q) == IF q = <<>> THEN 0 ELSE Head(q) + SeqSum(Tail(q))

\* The persons first .. first + n - 1, in order.
PersonRange(first, n) == [k \in 1..n |-> first + k - 1]

\* Household::group_quarters_units of a household nobody set units on.
NoUnits == 0

\* One input record: a household of the household file (with its occupants), or
\* a group-quarters record whose number_of_units is `units` and whose
\* household is named by `size` persons of the population file.
Records ==
  [kind : {"household"}, units : {NoUnits}, size : 0..2]
    \cup [kind : {"gq"}, units : 1..MaxUnits, size : 0..MaxSize]

\* The Household objects one record adds to `households`, the first occupant
\* being person `first`.  A group-quarters record adds its household, on which
\* set_group_quarters_units(number_of_units) is called, and then
\* number_of_units - 1 further unit households of the same subtype.
HouseholdsOfRecord(rec, first) ==
  IF rec.kind = "household"
  THEN << [gq |-> FALSE, units |-> NoUnits, enrollees |-> PersonRange(first, rec.size)] >>
  ELSE << [gq |-> TRUE, units |-> rec.units, enrollees |-> PersonRange(first, rec.size)] >>
         \o [i \in 1..(rec.units - 1) |-> [gq |-> TRUE, units |-> NoUnits, enrollees |-> <<>>]]

\* The Household objects after the records recs were read, in `households` order.
RECURSIVE LoadHouseholds(_, _)
LoadHouseholds(recs, first) ==
  IF recs = <<>> THEN <<>>
  ELSE HouseholdsOfRecord(Head(recs), first)
         \o LoadHouseholds(Tail(recs), first + Head(recs).size)

\* Person::household of every person after loading.
HouseholdOfPerson(hs, person) ==
  CHOOSE h \in DOMAIN hs : \E k \in DOMAIN hs[h].enrollees : hs[h].enrollees[k] = person

is_group_quarters(house) == house.gq
get_group_quarters_units(house) == house.units
get_size(house) == Len(house.enrollees)

\* The element the C++ expression households[p] reads (get_household(p)); past
\* the end of the vector the read is undefined.
get_household(p) ==
  IF p + 1 \in DOMAIN hh THEN {p + 1} ELSE {NULL} \cup DOMAIN hh

\* The element housemates[k] reads; past the end the read is undefined.
housemate_at(housemates, k) ==
  IF k + 1 \in DOMAIN housemates THEN {housemates[k + 1]} ELSE {NULL} \cup DOMAIN person_hh

\* q without its elements equal to x.
RECURSIVE Without(_, _)
Without(q, x) ==
  IF q = <<>> THEN <<>>
  ELSE IF Head(q) = x THEN Without(Tail(q), x) ELSE <<Head(q)>> \o Without(Tail(q), x)

\* person->change_household(house): the person leaves the occupant list of the
\* household it is in, joins the list of `house`, and its household
\* reference is set to `house`, all in one step.
change_household(person, house) ==
  [hh |-> [h \in DOMAIN hh |->
             IF h = house
             THEN [hh[h] EXCEPT !.enrollees = Append(Without(@, person), person)]
             ELSE [hh[h] EXCEPT !.enrollees = Without(@, person)]],
   person_hh |-> [person_hh EXCEPT ![person] = house]]

\* A plausible slip: the person is enrolled in the new unit and never removed
\* from the household it came from.
TransferOccupant_enroll_only(person, new_house) ==
  [hh |-> [hh EXCEPT ![new_house].enrollees = Append(@, person)],
   person_hh |-> [person_hh EXCEPT ![person] = new_house]]

\* Person* person = housemates[next_person++]; person->change_household(new_house);
TransferOccupant(person, new_house) == change_household(person, new_house)

\* A plausible slip: the larger units are filled like the smaller ones.
LargerUnitQuota_short(min_per_unit) == min_per_unit

\* The bound of the inner loop filling a larger unit.
LargerUnitQuota(min_per_unit) == min_per_unit + 1

\* A plausible slip: the occupants are handed out from the first on.
NextPersonStart_zero(min_per_unit) == 0

\* int next_person = min_per_unit;
NextPersonStart(min_per_unit) == min_per_unit

\* The bound of the inner loop filling a smaller unit.
SmallerUnitQuota(min_per_unit) == min_per_unit

GQLocalsInit ==
  [pc |-> "idle", p |-> 0, units |-> 0, house |-> NULL, new_house |-> NULL,
   gq_size |-> 0, gq_units |-> 0, housemates |-> <<>>, min_per_unit |-> 0,
   larger_units |-> 0, smaller_units |-> 0, next_person |-> 0, i |-> 0, j |-> 0,
   units_filled |-> 0]

\* No group quarters loaded.
GQIdle ==
  /\ hh = <<>>
  /\ person_hh = <<>>
  /\ gq_orig = <<>>
  /\ gq = GQLocalsInit

\* The households and persons after read_all_places and the population load.
GQLoaded ==
  \E n \in 1..MaxRecords : \E recs \in [1..n -> Records] :
    LET hs == LoadHouseholds(recs, 1)
        persons == SeqSum([k \in 1..n |-> recs[k].size])
    IN /\ hh = hs
       /\ person_hh = [q \in 1..persons |-> HouseholdOfPerson(hs, q)]
       /\ gq_orig = hs
       /\ gq = [GQLocalsInit EXCEPT !.pc = "start"]

\* A group-quarters record of which add_place created only `created` of the
\* units - 1 further unit households: the labels of the others were
\* registered before, by records of the household file.
CollidingRecords ==
  {r \in [kind : {"gq"}, units : 2..MaxUnits, size : 0..MaxSize, created : 0..(MaxUnits - 1)] :
     r.created < r.units - 1}

\* The Household objects a colliding record adds to `households`.
HouseholdsOfCollidingRecord(rec, first) ==
  << [gq |-> TRUE, units |-> rec.units, enrollees |-> PersonRange(first, rec.size)] >>
    \o [i \in 1..rec.created |-> [gq |-> TRUE, units |-> NoUnits, enrollees |-> <<>>]]

\* The households and persons after a load in which the household file held
\* households (here without occupants) under labels of the units of the
\* group-quarters record `crec`, read after them and before the records recs.
GQLoadedColliding ==
  \E crec \in CollidingRecords, n \in 0..(MaxRecords - 1) : \E recs \in [1..n -> Records] :
    LET earlier == [i \in 1..(crec.units - 1 - crec.created) |->
                      [gq |-> FALSE, units |-> NoUnits, enrollees |-> <<>>]]
        hs == earlier \o HouseholdsOfCollidingRecord(crec, 1)
                \o LoadHouseholds(recs, 1 + crec.size)
        persons == crec.size + SeqSum([k \in 1..n |-> recs[k].size])
    IN /\ hh = hs
       /\ person_hh = [q \in 1..persons |-> HouseholdOfPerson(hs, q)]
       /\ gq_orig = hs
       /\ gq = [GQLocalsInit EXCEPT !.pc = "start"]

\* setup_group_quarters up to the while loop: the household indexes are reset,
\* p = 0, units = 0.
GQ_Enter ==
  /\ UNCHANGED NotGQ
  /\ gq.pc = "start"
  /\ gq' = [gq EXCEPT !.pc = "while", !.p = 0, !.units = 0]
  /\ UNCHANGED <<hh, person_hh, gq_orig>>

\* while(p < num_households): fetch the next household; for a group-quarters
\* household with more than one unit compute the partition and enter the first
\* loop, otherwise go on with the next household.
GQ_NextHouse ==
  /\ UNCHANGED NotGQ
  /\ gq.pc = "while"
  /\ gq.p < Len(hh)
  /\ \E house \in get_household(gq.p) :
       LET gq_size == get_size(hh[house])
           gq_units == get_group_quarters_units(hh[house])
           min_per_unit == gq_size \div gq_units
           larger_units == gq_size - min_per_unit * gq_units
           smaller_units == gq_units - larger_units
       IN IF house = NULL
          THEN gq' = [gq EXCEPT !.pc = "crashed"]
          ELSE IF ~is_group_quarters(hh[house])
          THEN gq' = [gq EXCEPT !.p = @ + 1, !.house = house]
          ELSE IF gq_units > 1
          THEN gq' = [gq EXCEPT !.pc = "smaller", !.p = @ + 1, !.house = house,
                                !.gq_size = gq_size, !.gq_units = gq_units,
                                !.housemates = hh[house].enrollees,
                                !.min_per_unit = min_per_unit,
                                !.larger_units = larger_units,
                                !.smaller_units = smaller_units,
                                !.next_person = NextPersonStart(min_per_unit),
                                !.i = 1, !.units_filled = 1]
          ELSE gq' = [gq EXCEPT !.p = @ + 1, !.house = house,
                                !.gq_size = gq_size, !.gq_units = gq_units,
                                !.units = @ + 1, !.units_filled = 1]
  /\ UNCHANGED <<hh, person_hh, gq_orig>>

\* for(i = 1; i < smaller_units; ++i): take the next household as the unit to
\* fill, or leave the loop for the loop over the larger units.
GQ_SmallerHead ==
  /\ UNCHANGED NotGQ
  /\ gq.pc = "smaller"
  /\ IF gq.i < gq.smaller_units
     THEN \E new_house \in get_household(gq.p) :
            gq' = [gq EXCEPT !.pc = IF new_house = NULL THEN "crashed" ELSE "smaller_fill",
                             !.p = @ + 1, !.new_house = new_house, !.j = 0]
     ELSE gq' = [gq EXCEPT !.pc = "larger", !.i = 0]
  /\ UNCHANGED <<hh, person_hh, gq_orig>>

\* One iteration of the loop over j that fills new_house with `quota` persons,
\* or the end of that loop (units_filled++ and the next i).
GQ_Fill(quota, head) ==
  IF gq.j < quota
  THEN \E person \in housemate_at(gq.housemates, gq.next_person) :
         IF person = NULL
         THEN /\ gq' = [gq EXCEPT !.pc = "crashed"]
              /\ UNCHANGED <<hh, person_hh, gq_orig>>
         ELSE LET after == TransferOccupant(person, gq.new_house)
              IN /\ hh' = after.hh
                 /\ person_hh' = after.person_hh
                 /\ gq' = [gq EXCEPT !.next_person = @ + 1, !.j = @ + 1]
                 /\ UNCHANGED gq_orig
  ELSE /\ gq' = [gq EXCEPT !.pc = head, !.units_filled = @ + 1, !.i = @ + 1]
       /\ UNCHANGED <<hh, person_hh, gq_orig>>

GQ_SmallerFill ==
  /\ UNCHANGED NotGQ
  /\ gq.pc = "smaller_fill"
  /\ GQ_Fill(SmallerUnitQuota(gq.min_per_unit), "smaller")

\* for(i = 0; i < larger_units; ++i): take the next household as the unit to
\* fill, or finish this group quarters (units += units_filled).
GQ_LargerHead ==
  /\ UNCHANGED NotGQ
  /\ gq.pc = "larger"
  /\ IF gq.i < gq.larger_units
     THEN \E new_house \in get_household(gq.p) :
            gq' = [gq EXCEPT !.pc = IF new_house = NULL THEN "crashed" ELSE "larger_fill",
                             !.p = @ + 1, !.new_house = new_house, !.j = 0]
     ELSE gq' = [gq EXCEPT !.pc = "while", !.units = @ + gq.units_filled]
  /\ UNCHANGED <<hh, person_hh, gq_orig>>

GQ_LargerFill ==
  /\ UNCHANGED NotGQ
  /\ gq.pc = "larger_fill"
  /\ GQ_Fill(LargerUnitQuota(gq.min_per_unit), "larger")

\* The while loop ends: setup_group_quarters returns.
GQ_Exit ==
  /\ UNCHANGED NotGQ
  /\ gq.pc = "while"
  /\ gq.p >= Len(hh)
  /\ gq' = [gq EXCEPT !.pc = "done"]
  /\ UNCHANGED <<hh, person_hh, gq_orig>>

(***************************************************************************)
(* Hospital selection: catchment, daily healthcare facility, primary care  *)
(*                                                                         *)
(* The C++ computes in double.  A weight is kept here as an integer number *)
(* of 1/WeightUnit, a normalised probability and the uniform draw as an    *)
(* integer number of 1/Prec: hosp_probs[i] /= probability_total rounds to  *)
(* the nearest representable value, as the division of two doubles does,   *)
(* so that the probabilities need not add up to exactly 1.                 *)
(***************************************************************************)

\* Bounds: hospitals in the walk, bed / daily capacities, distances, the
\* resolution of a probability, population size, panel-size parameter, and
\* primary-care selection calls, and catchment / daily selection calls.
NumHosp == 4
MaxCap == 1
MaxDist == 2
Prec == 4
MaxPop == 1
MaxPanel == 1
MaxAssignCalls == 2
MaxSelectCalls == 1

HospSubtypes == {"none", "clinic", "mobile"}

\* Every combination of the attributes of a Hospital the selections read.
HospitalRecords ==
  [distance : 0..MaxDist, bed_count : 0..MaxCap, occupied_bed_count : 0..MaxCap,
   daily_patient_capacity : 0..MaxCap, current_daily_patient_count : 0..MaxCap,
   open : BOOLEAN, subtype : HospSubtypes, accepts_insurance : BOOLEAN]

\* A hospital at distance 1 with free beds and free daily capacity, open, no
\* clinic, accepting the person's insurance.
PlainHospital ==
  [distance |-> 1, bed_count |-> MaxCap, occupied_bed_count |-> 0,
   daily_patient_capacity |-> MaxCap, current_daily_patient_count |-> 0,
   open |-> TRUE, subtype |-> "none", accepts_insurance |-> TRUE]

HospitalFields ==
  {"distance", "bed_count", "occupied_bed_count", "daily_patient_capacity",
   "current_daily_patient_count", "open", "subtype", "accepts_insurance"}

\* The attributes each selection operation reads.
FieldsRead(m) ==
  IF m = "catchment"
  THEN {"distance", "bed_count", "occupied_bed_count", "open", "subtype", "accepts_insurance"}
  ELSE IF m = "daily"
  THEN {"distance", "daily_patient_capacity", "current_daily_patient_count", "open",
        "accepts_insurance"}
  ELSE {"distance", "daily_patient_capacity", "open", "subtype", "accepts_insurance"}

\* The hospitals enumerated for operation m: PlainHospital with at most one of
\* the attributes m reads changed.
HospitalInputs(m) ==
  {h \in HospitalRecords :
     LET changed == {f \in HospitalFields : h[f] # PlainHospital[f]}
     IN changed \subseteq FieldsRead(m) /\ Cardinality(changed) <= 1}

is_healthcare_clinic(h) == h.subtype = "clinic"
is_mobile_healthcare_clinic(h) == h.subtype = "mobile"

\* Weights are counted in units of 1 / WeightUnit.
WeightUnit == MaxDist * MaxDist

\* static_cast<double>(cap) / den, in weight units.
Weight(cap, den) == (cap * WeightUnit) \div den

NotPossible == [cur_prob |-> 0, increment |-> 0]

\* Loop body of get_random_open_hospital_matching_criteria: cur_prob and
\* increment of one candidate.
catchment_candidate(h, check_insurance) ==
  LET overnight_cap == h.bed_count
  IN IF /\ h.distance > 0
        /\ ~is_healthcare_clinic(h)
        /\ ~is_mobile_healthcare_clinic(h)
        /\ h.open
        /\ h.occupied_bed_count < overnight_cap
     THEN IF check_insurance
          THEN IF h.accepts_insurance
               THEN [cur_prob |-> Weight(overnight_cap, h.distance), increment |-> 1]
               ELSE NotPossible
          ELSE [cur_prob |-> Weight(overnight_cap, h.distance), increment |-> 1]
     ELSE NotPossible

\* Loop body of get_random_open_healthcare_facility_matching_criteria.
daily_candidate(h, check_insurance, use_search_radius_limit, Hospitalization_radius) ==
  LET daily_hosp_cap == h.daily_patient_capacity
      good == [cur_prob |-> Weight(daily_hosp_cap, h.distance * h.distance), increment |-> 1]
  IN IF /\ h.distance > 0
        /\ h.open
        /\ h.current_daily_patient_count < daily_hosp_cap
     THEN IF use_search_radius_limit
          THEN IF h.distance <= Hospitalization_radius
               THEN IF check_insurance
                    THEN IF h.accepts_insurance THEN good ELSE NotPossible
                    ELSE good
               ELSE NotPossible
          ELSE IF check_insurance
               THEN IF h.accepts_insurance THEN good ELSE NotPossible
               ELSE good
     ELSE NotPossible

\* Loop body of get_random_primary_care_facility_matching_criteria; current and
\* total are the hospital's entries of the two assigned-size maps.
primary_care_candidate(h, current, total, check_insurance, use_search_radius_limit, Hospitalization_radius) ==
  LET daily_hosp_cap == h.daily_patient_capacity
      unfilled == IF current < total
                  THEN [cur_prob |-> Weight(daily_hosp_cap, h.distance * h.distance),
                        increment |-> 1]
                  ELSE NotPossible
  IN IF h.distance > 0 /\ h.open
     THEN IF use_search_radius_limit
          THEN IF h.distance <= Hospitalization_radius
               THEN IF check_insurance
                    THEN IF h.accepts_insurance THEN unfilled ELSE NotPossible
                    ELSE unfilled
               ELSE NotPossible
          ELSE IF check_insurance
               THEN IF h.accepts_insurance THEN unfilled ELSE NotPossible
               ELSE unfilled
     ELSE NotPossible

\* a / b rounded to the nearest integer (halves up), a >= 0, b > 0.
RoundDiv(a, b) == (2 * a + b) \div (2 * b)

\* hosp_probs[i] /= probability_total, as a number of 1/Prec.
Normalised(cur_prob, probability_total) == RoundDiv(cur_prob * Prec, probability_total)

\* The walk: cum_prob += hosp_probs[i]; if(rand < cum_prob) return i; and after
\* the loop the last candidate.
RECURSIVE Walk(_, _, _, _)
Walk(hosp_probs, i, cum_prob, rand) ==
  IF i > Len(hosp_probs)
  THEN Len(hosp_probs)
  ELSE IF rand < cum_prob + hosp_probs[i]
       THEN i
       ELSE Walk(hosp_probs, i + 1, cum_prob + hosp_probs[i], rand)

\* The tail shared by the three selections, from the test of
\* number_possible_hospitals on: normalise, draw, walk.  The result is the
\* position of the returned hospital, or NULL.
WeightedWalk(cur_probs, probability_total, number_possible_hospitals, rand) ==
  IF number_possible_hospitals > 0
  THEN IF probability_total > 0
       THEN Walk([i \in DOMAIN cur_probs |-> Normalised(cur_probs[i], probability_total)],
                 1, 0, rand)
       ELSE Walk(cur_probs, 1, 0, rand)
  ELSE NULL

\* A selection that goes on without the test for an empty candidate list.
Selection_no_abort(op, cands, rand) ==
  LET cur_probs == [i \in DOMAIN cands |-> cands[i].cur_prob]
      probability_total == SeqSum(cur_probs)
      number_possible_hospitals == SeqSum([i \in DOMAIN cands |-> cands[i].increment])
      result == WeightedWalk(cur_probs, probability_total, number_possible_hospitals, rand)
  IN [op |-> op, status |-> "returned", result |-> result,
      cur_prob |-> IF result = NULL THEN 0 ELSE cur_probs[result],
      probability_total |-> probability_total,
      number_possible_hospitals |-> number_possible_hospitals]

\* What a selection call leaves in sel: the hospital returned (a position, or
\* NULL), its weight, and the two totals of the call.  With no hospital at all
\* the call ends in Utils::fred_abort.
Selection(op, cands, rand) ==
  IF Len(cands) = 0
  THEN [op |-> op, status |-> "aborted", result |-> NULL, cur_prob |-> 0,
        probability_total |-> 0, number_possible_hospitals |-> 0]
  ELSE LET cur_probs == [i \in DOMAIN cands |-> cands[i].cur_prob]
           probability_total == SeqSum(cur_probs)
           number_possible_hospitals == SeqSum([i \in DOMAIN cands |-> cands[i].increment])
           result == WeightedWalk(cur_probs, probability_total, number_possible_hospitals, rand)
       IN [op |-> op, status |-> "returned", result |-> result,
           cur_prob |-> IF result = NULL THEN 0 ELSE cur_probs[result],
           probability_total |-> probability_total,
           number_possible_hospitals |-> number_possible_hospitals]

\* Hospital* get_random_open_hospital_matching_criteria(sim_day, per, check_insurance)
get_random_open_hospital_matching_criteria(possible_hosp, check_insurance, rand) ==
  Selection("catchment",
            [i \in 1..Len(possible_hosp) |-> catchment_candidate(possible_hosp[i], check_insurance)],
            rand)

\* Hospital* get_random_open_healthcare_facility_matching_criteria(sim_day, per,
\*   check_insurance, use_search_radius_limit)
get_random_open_healthcare_facility_matching_criteria(hs, check_insurance, use_search_radius_limit, Hospitalization_radius, rand) ==
  Selection("daily",
            [i \in 1..Len(hs) |->
               daily_candidate(hs[i], check_insurance, use_search_radius_limit,
                               Hospitalization_radius)],
            rand)

\* ceil(proprtn_of_total_panel * tot_pop_size) for one hospital.
TargetAssignedSize(h) ==
  IF h.subtype # "mobile"
  THEN (h.daily_patient_capacity * tot_pop_size + panel_size - 1) \div panel_size
  ELSE 0

\* The two maps after prepare_primary_care_assignment; nothing changes when
\* they are initialised already.
prepare_primary_care_assignment(pnl) ==
  IF pnl.initialized
  THEN pnl
  ELSE [initialized |-> TRUE,
        total |-> [i \in 1..Len(hosp) |-> TargetAssignedSize(hosp[i])],
        current |-> [i \in 1..Len(hosp) |-> 0]]

\* Hospital* get_random_primary_care_facility_matching_criteria(per,
\*   check_insurance, use_search_radius_limit), on the maps pnl.
get_random_primary_care_facility_matching_criteria(pnl, check_insurance, use_search_radius_limit, Hospitalization_radius, rand) ==
  Selection("primary",
            [i \in 1..Len(hosp) |->
               primary_care_candidate(hosp[i], pnl.current[i], pnl.total[i], check_insurance,
                                      use_search_radius_limit, Hospitalization_radius)],
            rand)

\* Place_List::increment_hospital_ID_current_assigned_size_map(id), which the
\* caller invokes for the hospital a primary-care selection returned.
increment_hospital_ID_current_assigned_size_map(pnl, id) ==
  [pnl EXCEPT !.current[id] = @ + 1]

\* The uniform draws Random::draw_random() can return, in units of 1/Prec.
Draws == 0..(Prec - 1)

NoSelection ==
  [op |-> "none", status |-> "none", result |-> NULL, cur_prob |-> 0,
   probability_total |-> 0, number_possible_hospitals |-> 0]

NoPanel == [initialized |-> FALSE, total |-> <<>>, current |-> <<>>]

\* The flags of a selection call and Place_List::Hospitalization_radius.
Query(check_insurance, use_search_radius_limit, Hospitalization_radius) ==
  [check_insurance |-> check_insurance,
   use_search_radius_limit |-> use_search_radius_limit,
   Hospitalization_radius |-> Hospitalization_radius]

NoQuery == Query(FALSE, FALSE, 0)

\* The values of Hospitalization_radius enumerated for a call: every radius
\* when the call limits the search by it, one (the value is not read) otherwise.
Radii(use_search_radius_limit) ==
  IF use_search_radius_limit THEN 1..MaxDist ELSE {MaxDist}

\* No hospital run.
HospitalIdle ==
  /\ hosp = <<>>
  /\ mode = "none"
  /\ sel = NoSelection
  /\ panel = NoPanel
  /\ tot_pop_size = 0
  /\ panel_size = 1
  /\ ncalls = 0
  /\ query = NoQuery

\* Places and population are loaded: the hospitals of the registry (or the
\* nearby hospitals of a household), seen from one household, before any
\* selection.
HospitalsLoaded ==
  /\ mode \in {"catchment", "daily", "primary"}
  /\ \E n \in 0..NumHosp : hosp \in [1..n -> HospitalInputs(mode)]
  /\ sel = NoSelection
  /\ panel = NoPanel
  /\ IF mode = "primary"
     THEN tot_pop_size \in 1..MaxPop /\ panel_size \in 1..MaxPanel
     ELSE tot_pop_size = 0 /\ panel_size = 1
  /\ ncalls = 0
  /\ query = NoQuery

\* A household is bound to a hospital (catchment mode).
SelectCatchment ==
  /\ UNCHANGED NotHospital
  /\ mode = "catchment"
  /\ ncalls < MaxSelectCalls
  /\ \E check_insurance \in BOOLEAN, rand \in Draws :
       /\ sel' = get_random_open_hospital_matching_criteria(hosp, check_insurance, rand)
       /\ query' = Query(check_insurance, FALSE, 0)
  /\ ncalls' = ncalls + 1
  /\ UNCHANGED <<hosp, mode, panel, tot_pop_size, panel_size>>

\* A person looks for a healthcare facility for the day.
SelectDaily ==
  /\ UNCHANGED NotHospital
  /\ mode = "daily"
  /\ ncalls < MaxSelectCalls
  /\ \E check_insurance \in BOOLEAN, use_search_radius_limit \in BOOLEAN, rand \in Draws :
     \E Hospitalization_radius \in Radii(use_search_radius_limit) :
       /\ sel' = get_random_open_healthcare_facility_matching_criteria(
                   hosp, check_insurance, use_search_radius_limit, Hospitalization_radius, rand)
       /\ query' = Query(check_insurance, use_search_radius_limit, Hospitalization_radius)
  /\ ncalls' = ncalls + 1
  /\ UNCHANGED <<hosp, mode, panel, tot_pop_size, panel_size>>

\* prepare_primary_care_assignment called on its own.
PreparePrimaryCare ==
  /\ UNCHANGED NotHospital
  /\ mode = "primary"
  /\ ~panel.initialized
  /\ panel' = prepare_primary_care_assignment(panel)
  /\ UNCHANGED <<hosp, mode, sel, tot_pop_size, panel_size, ncalls, query>>

\* A person is assigned a primary care facility: the selection (which prepares
\* the maps on its first call), then the caller's increment of the current
\* assigned size of the hospital returned.
AssignPrimaryCare ==
  /\ UNCHANGED NotHospital
  /\ mode = "primary"
  /\ ncalls < MaxAssignCalls
  /\ \E check_insurance \in BOOLEAN, use_search_radius_limit \in BOOLEAN, rand \in Draws :
     \E Hospitalization_radius \in Radii(use_search_radius_limit) :
       LET pnl == prepare_primary_care_assignment(panel)
           s == get_random_primary_care_facility_matching_criteria(
                  pnl, check_insurance, use_search_radius_limit, Hospitalization_radius, rand)
       IN /\ sel' = s
          /\ query' = Query(check_insurance, use_search_radius_limit, Hospitalization_radius)
          /\ panel' = IF s.result # NULL
                      THEN increment_hospital_ID_current_assigned_size_map(pnl, s.result)
                      ELSE pnl
  /\ ncalls' = ncalls + 1
  /\ UNCHANGED <<hosp, mode, tot_pop_size, panel_size>>

(***************************************************************************)
(* Household shelter scheduling                                            *)
(*                                                                         *)
(* A rate and a uniform draw are integer numbers of 1/Prec, a normal draw  *)
(* an integer number of halves, Shelter_duration_mean an int, the fraction *)
(* Pct_households_sheltering an integer number of 1/PctDen.                *)
(***************************************************************************)

\* Bounds: households, the resolution of Pct_households_sheltering, the
\* largest normal draw (in halves) and the largest Shelter_duration_mean.
MaxHouseholds == 2
PctDen == 4
MaxNormal == 4
MaxMean == 3

\* 0.4999999, and 1.0, as integer numbers of 1e-7.
RoundingOffset == 4999999
Fixed == 10000000

\* Conversion of a double (in units of 1e-7) to int: truncation toward zero.
TruncToInt(v) == IF v >= 0 THEN v \div Fixed ELSE -((-v) \div Fixed)

\* int x = 0.4999999 + Random::draw_normal(mean, std), the draw in halves.
NormalToInt(draw) == TruncToInt(RoundingOffset + draw * (Fixed \div 2))

NormalDraws == (-MaxNormal)..MaxNormal

\* The values enumerated for a probability or rate parameter: 0, one value
\* strictly between 0 and 1, and 1.
Rates == {0, Prec \div 2, Prec}

\* int num_sheltering = 0.5 + Pct_households_sheltering * households.size(),
\* without the half (truncation of the product).
NumSheltering_truncated(Pct, num_households) == (Pct * num_households) \div PctDen

\* int num_sheltering = 0.5 + Pct_households_sheltering * households.size()
NumSheltering(Pct, num_households) ==
  (PctDen + 2 * Pct * num_households) \div (2 * PctDen)

\* while(shelter_start_day > 0 && r < Early_shelter_rate): the values
\* shelter_start_day can leave the loop with, over all draws.
RECURSIVE EarlyShelterLoop(_, _)
EarlyShelterLoop(shelter_start_day, Early_shelter_rate) ==
  UNION {IF shelter_start_day > 0 /\ r < Early_shelter_rate
         THEN EarlyShelterLoop(shelter_start_day - 1, Early_shelter_rate)
         ELSE {shelter_start_day} : r \in Draws}

\* shelter_start_day left as drawn.
ClampStart_none(shelter_start_day) == shelter_start_day

\* if(shelter_start_day < 0) shelter_start_day = 0
ClampStart(shelter_start_day) == IF shelter_start_day < 0 THEN 0 ELSE shelter_start_day

\* The start days shelter_household can set, for one normal draw.
ShelterStartDays(draw) ==
  LET drawn == NormalToInt(draw)
      early == IF params.Early_shelter_rate > 0
               THEN EarlyShelterLoop(drawn, params.Early_shelter_rate)
               ELSE {drawn}
  IN {ClampStart(d) : d \in early}

\* while(shelter_duration < Shelter_duration_mean && Shelter_decay_rate < r):
\* the values shelter_duration can leave the loop with, over all draws.
RECURSIVE DecayLoop(_, _, _)
DecayLoop(shelter_duration, Shelter_duration_mean, Shelter_decay_rate) ==
  UNION {IF shelter_duration < Shelter_duration_mean /\ Shelter_decay_rate < r
         THEN DecayLoop(shelter_duration + 1, Shelter_duration_mean, Shelter_decay_rate)
         ELSE {shelter_duration} : r \in Draws}

\* The durations shelter_household can compute, for one normal draw.
ShelterDurations(draw) ==
  LET drawn == NormalToInt(draw)
      clamped == IF drawn < 1 THEN 1 ELSE drawn
  IN IF params.Shelter_decay_rate > 0
     THEN UNION {IF 2 * r < Prec
                 THEN DecayLoop(1, params.Shelter_duration_mean, params.Shelter_decay_rate)
                 ELSE {clamped} : r \in Draws}
     ELSE {clamped}

\* A Household nobody scheduled.  times_scheduled counts the calls of
\* shelter_household on it, shelter_duration keeps the duration of the last.
NewHousehold ==
  [shelter |-> FALSE, shelter_start_day |-> 0, shelter_end_day |-> 0,
   shelter_duration |-> 0, times_scheduled |-> 0,
   evac_date_set |-> FALSE, return_date_set |-> FALSE]

\* void shelter_household(Household* h), with the start day and duration it
\* computed.
shelter_household(h, shelter_start_day, shelter_duration) ==
  [h EXCEPT !.shelter = TRUE,
            !.shelter_start_day = shelter_start_day,
            !.shelter_end_day = shelter_start_day + shelter_duration,
            !.shelter_duration = shelter_duration,
            !.times_scheduled = @ + 1]

\* Every order FYShuffle can leave n households in.
Shuffles(n) == {t \in [1..n -> 1..n] : \A a, b \in 1..n : t[a] = t[b] => a = b}

NoParams ==
  [Pct_households_sheltering |-> 0, High_income_households_sheltering |-> FALSE,
   Early_shelter_rate |-> 0, Shelter_decay_rate |-> 0, Shelter_duration_mean |-> 0,
   HAZEL_disaster_start_sim_day |-> 0, HAZEL_disaster_end_sim_day |-> 0,
   HAZEL_disaster_evac_start_offset |-> 0, HAZEL_disaster_evac_end_offset |-> 0,
   HAZEL_disaster_return_start_offset |-> 0, HAZEL_disaster_return_end_offset |-> 0,
   HAZEL_disaster_evac_prob_per_day |-> 0, HAZEL_disaster_return_prob_per_day |-> 0]

SchedIdle ==
  [op |-> "none", pc |-> "idle", i |-> 0, num_sheltering |-> 0, tmp |-> <<>>,
   evac_start_sim_day |-> 0, evac_end_sim_day |-> 0,
   return_start_sim_day |-> 0, return_end_sim_day |-> 0]

\* No scheduling run.
ShelterIdle ==
  /\ params = NoParams
  /\ sheltering = <<>>
  /\ sched = SchedIdle

\* setup_households is about to call select_households_for_shelter: the
\* households are sorted, the parameters read.
ShelterReady ==
  /\ \E pct \in 0..PctDen, high \in BOOLEAN, early \in Rates, decay \in Rates,
        mean \in 0..MaxMean :
       params = [NoParams EXCEPT !.Pct_households_sheltering = pct,
                                 !.High_income_households_sheltering = high,
                                 !.Early_shelter_rate = early,
                                 !.Shelter_decay_rate = decay,
                                 !.Shelter_duration_mean = mean]
  /\ \E n \in 0..MaxHouseholds : sheltering = [k \in 1..n |-> NewHousehold]
  /\ sched = [SchedIdle EXCEPT !.op = "shelter", !.pc = "start"]

\* select_households_for_shelter up to its loop: num_sheltering, and in random
\* mode the shuffled tmp.
Shelter_Enter ==
  /\ UNCHANGED NotShelter
  /\ sched.op = "shelter" /\ sched.pc = "start"
  /\ \E tmp \in IF params.High_income_households_sheltering
                THEN {<<>>}
                ELSE Shuffles(Len(sheltering)) :
       sched' = [sched EXCEPT
                   !.pc = "loop",
                   !.i = 0,
                   !.num_sheltering = NumSheltering(params.Pct_households_sheltering,
                                                    Len(sheltering)),
                   !.tmp = tmp]
  /\ UNCHANGED <<params, sheltering>>

\* The household the loop schedules at step i: households[num_households-1-i]
\* in income mode, tmp[i] in random mode (positions from 1).
ShelterTarget(i) ==
  IF params.High_income_households_sheltering
  THEN Len(sheltering) - i
  ELSE sched.tmp[i + 1]

\* One iteration of either loop: shelter_household on the next household.
Shelter_Next ==
  /\ UNCHANGED NotShelter
  /\ sched.op = "shelter" /\ sched.pc = "loop"
  /\ sched.i < sched.num_sheltering
  /\ ShelterTarget(sched.i) \in 1..Len(sheltering)
  /\ \E delay \in NormalDraws, length \in NormalDraws :
       \E shelter_start_day \in ShelterStartDays(delay),
          shelter_duration \in ShelterDurations(length) :
         sheltering' = [sheltering EXCEPT ![ShelterTarget(sched.i)] =
                          shelter_household(@, shelter_start_day, shelter_duration)]
  /\ sched' = [sched EXCEPT !.i = @ + 1]
  /\ UNCHANGED params

\* The loop ends.
Shelter_Exit ==
  /\ UNCHANGED NotShelter
  /\ sched.op = "shelter" /\ sched.pc = "loop"
  /\ sched.i >= sched.num_sheltering
  /\ sched' = [sched EXCEPT !.pc = "done"]
  /\ UNCHANGED <<params, sheltering>>

(***************************************************************************)
(* Household evacuation scheduling (HAZEL)                                 *)
(***************************************************************************)

\* Bounds: households of an evacuation run, the disaster days, the magnitude
\* of an offset.
MaxEvacHouseholds == 2
MaxDay == 0
MaxOffset == 1

\* Return day k accepted whatever the evacuation day.
CanReturn_always(k, j) == TRUE

\* if(k > j): can't return before you leave.
CanReturn(k, j) == k > j

NoReturn == [return_date_set |-> FALSE, shelter_end_day |-> 0]

\* The inner loop over the return window, from day k on, for evacuation day
\* j: every way it can end, over all draws.
RECURSIVE ReturnWalk(_, _)
ReturnWalk(k, j) ==
  IF k > sched.return_end_sim_day
  THEN {NoReturn}
  ELSE UNION {IF /\ (r < params.HAZEL_disaster_evac_prob_per_day
                     \/ k = sched.return_end_sim_day)
                 /\ CanReturn(k, j)
              THEN {[return_date_set |-> TRUE, shelter_end_day |-> k]}
              ELSE ReturnWalk(k + 1, j) : r \in Draws}

NoEvacuation ==
  [evac_date_set |-> FALSE, shelter_start_day |-> 0,
   return_date_set |-> FALSE, shelter_end_day |-> 0]

\* The loop over the evacuation window, from day j on: every way it can end,
\* over all draws.
RECURSIVE EvacWalk(_)
EvacWalk(j) ==
  IF j > sched.evac_end_sim_day
  THEN {NoEvacuation}
  ELSE UNION {IF r < params.HAZEL_disaster_evac_prob_per_day
              THEN {[evac_date_set |-> TRUE, shelter_start_day |-> j,
                     return_date_set |-> ret.return_date_set,
                     shelter_end_day |-> ret.shelter_end_day] :
                      ret \in ReturnWalk(sched.return_start_sim_day, j)}
              ELSE EvacWalk(j + 1) : r \in Draws}

\* What one pass of the household loop leaves in the Household.
Evacuated(h, out) ==
  [h EXCEPT !.evac_date_set = out.evac_date_set,
            !.return_date_set = out.return_date_set,
            !.shelter_start_day = IF out.evac_date_set THEN out.shelter_start_day ELSE @,
            !.shelter_end_day = IF out.return_date_set THEN out.shelter_end_day ELSE @]

\* setup_households is about to call select_households_for_evacuation, with
\* Global::Enable_HAZEL set.
EvacuationReady ==
  /\ \E start \in 0..MaxDay, end \in 0..MaxDay, prob \in Rates,
        offsets \in [1..4 -> (-MaxOffset)..MaxOffset] :
       params = [NoParams EXCEPT !.HAZEL_disaster_start_sim_day = start,
                                 !.HAZEL_disaster_end_sim_day = end,
                                 !.HAZEL_disaster_evac_start_offset = offsets[1],
                                 !.HAZEL_disaster_evac_end_offset = offsets[2],
                                 !.HAZEL_disaster_return_start_offset = offsets[3],
                                 !.HAZEL_disaster_return_end_offset = offsets[4],
                                 !.HAZEL_disaster_evac_prob_per_day = prob]
  /\ \E n \in 0..MaxEvacHouseholds : sheltering = [k \in 1..n |-> NewHousehold]
  /\ sched = [SchedIdle EXCEPT !.op = "evacuation", !.pc = "start"]

\* Bound: the length of the evacuation and return windows of a run that looks
\* at the return draw.
MaxWindow == 2

\* As EvacuationReady, with the disaster on day 0, windows that open on or
\* after it, and both per-day probabilities read from the parameter file.
ReturnReady ==
  /\ \E prob \in Rates, rprob \in Rates, offsets \in [2..4 -> 0..MaxWindow] :
       params = [NoParams EXCEPT !.HAZEL_disaster_evac_end_offset = offsets[2],
                                 !.HAZEL_disaster_return_start_offset = offsets[3],
                                 !.HAZEL_disaster_return_end_offset = offsets[4],
                                 !.HAZEL_disaster_evac_prob_per_day = prob,
                                 !.HAZEL_disaster_return_prob_per_day = rprob]
  /\ \E n \in 1..MaxEvacHouseholds : sheltering = [k \in 1..n |-> NewHousehold]
  /\ sched = [SchedIdle EXCEPT !.op = "evacuation", !.pc = "start"]

\* select_households_for_evacuation up to its loop: the four window days and
\* the entry guard.
Evac_Enter ==
  /\ UNCHANGED NotShelter
  /\ sched.op = "evacuation" /\ sched.pc = "start"
  /\ LET evac_start_sim_day == params.HAZEL_disaster_start_sim_day
                                 + params.HAZEL_disaster_evac_start_offset
         evac_end_sim_day == params.HAZEL_disaster_end_sim_day
                               + params.HAZEL_disaster_evac_end_offset
     IN sched' = [sched EXCEPT
                    !.pc = IF evac_start_sim_day < 0 \/ evac_end_sim_day < evac_start_sim_day
                           THEN "done"
                           ELSE "loop",
                    !.i = 0,
                    !.evac_start_sim_day = evac_start_sim_day,
                    !.evac_end_sim_day = evac_end_sim_day,
                    !.return_start_sim_day = params.HAZEL_disaster_end_sim_day
                                               + params.HAZEL_disaster_return_start_offset,
                    !.return_end_sim_day = params.HAZEL_disaster_end_sim_day
                                             + params.HAZEL_disaster_return_end_offset]
  /\ UNCHANGED <<params, sheltering>>

\* One pass of the household loop; assert(return_date_set) ends the run when
\* an evacuation day was set and no return day.
Evac_Next ==
  /\ UNCHANGED NotShelter
  /\ sched.op = "evacuation" /\ sched.pc = "loop"
  /\ sched.i < Len(sheltering)
  /\ \E out \in EvacWalk(sched.evac_start_sim_day) :
       /\ sheltering' = [sheltering EXCEPT ![sched.i + 1] = Evacuated(@, out)]
       /\ sched' = IF out.evac_date_set /\ ~out.return_date_set
                   THEN [sched EXCEPT !.pc = "aborted"]
                   ELSE [sched EXCEPT !.i = @ + 1]
  /\ UNCHANGED params

\* The household loop ends.
Evac_Exit ==
  /\ UNCHANGED NotShelter
  /\ sched.op = "evacuation" /\ sched.pc = "loop"
  /\ sched.i >= Len(sheltering)
  /\ sched' = [sched EXCEPT !.pc = "done"]
  /\ UNCHANGED <<params, sheltering>>

RegAddPlace == AddPlace /\ UNCHANGED NotRegistry

RegGetPlaceFromLabel == GetPlaceFromLabel /\ UNCHANGED NotRegistry

(***************************************************************************)
(* Bounding box: update_geo_boundaries and the file readers                *)
(***************************************************************************)

\* Bounds: the magnitude of a coordinate, the places registered.
MaxCoord == 1
MaxPlaces == 2

\* read_all_places: min_lat = min_lon = 999, max_lat = max_lon = -999.
BoxInit == 999

Coords == (-MaxCoord)..MaxCoord

\* No place read.
GeoIdle ==
  /\ min_lat = BoxInit /\ min_lon = BoxInit
  /\ max_lat = -BoxInit /\ max_lon = -BoxInit
  /\ geo_places = {}

\* void update_geo_boundaries(fred::geo lat, fred::geo lon)
update_geo_boundaries(lat, lon) ==
  /\ min_lat' = IF lat # 0 /\ lat < min_lat THEN lat ELSE min_lat
  /\ max_lat' = IF lat # 0 /\ max_lat < lat THEN lat ELSE max_lat
  /\ min_lon' = IF lon # 0 /\ lon < min_lon THEN lon ELSE min_lon
  /\ max_lon' = IF lon # 0 /\ max_lon < lon THEN lon ELSE max_lon

GeoPlace(kind, lat, lon) == [kind |-> kind, lat |-> lat, lon |-> lon]

\* read_household_file, one record, up to add_place.
Geo_ReadHousehold ==
  /\ UNCHANGED NotGeo
  /\ Cardinality(geo_places) < MaxPlaces
  /\ \E lat \in Coords, lon \in Coords :
       /\ update_geo_boundaries(lat, lon)
       /\ geo_places' = geo_places \cup {GeoPlace("household", lat, lon)}

\* read_school_file, one record.
Geo_ReadSchool ==
  /\ UNCHANGED NotGeo
  /\ Cardinality(geo_places) < MaxPlaces
  /\ \E lat \in Coords, lon \in Coords :
       geo_places' = geo_places \cup {GeoPlace("school", lat, lon)}
  /\ UNCHANGED <<min_lat, max_lat, min_lon, max_lon>>

\* read_workplace_file, one record.
Geo_ReadWorkplace ==
  /\ UNCHANGED NotGeo
  /\ Cardinality(geo_places) < MaxPlaces
  /\ \E lat \in Coords, lon \in Coords :
       geo_places' = geo_places \cup {GeoPlace("workplace", lat, lon)}
  /\ UNCHANGED <<min_lat, max_lat, min_lon, max_lon>>

\* read_hospital_file, one record, up to add_place.
Geo_ReadHospital ==
  /\ UNCHANGED NotGeo
  /\ Cardinality(geo_places) < MaxPlaces
  /\ \E lat \in Coords, lon \in Coords :
       /\ update_geo_boundaries(lat, lon)
       /\ geo_places' = geo_places \cup {GeoPlace("hospital", lat, lon)}

\* read_group_quarters_file, one record: the coordinates, and the workplace
\* and household units registered at them.
Geo_ReadGroupQuarters ==
  /\ UNCHANGED NotGeo
  /\ Cardinality(geo_places) < MaxPlaces
  /\ \E lat \in Coords, lon \in Coords :
       /\ update_geo_boundaries(lat, lon)
       /\ geo_places' = geo_places \cup {GeoPlace("group_quarters", lat, lon)}

(***************************************************************************)
(* Counties and census tracts: read_household_file and                     *)
(* read_group_quarters_file                                                *)
(***************************************************************************)

\* Bounds: the county codes and tract codes of the input, the distinct
\* records read.
NumCounties == 2
NumTracts == 2
MaxFipsFields == 2

\* strncpy(fips_str, tokens[fips_field], 5) and (..., 11).
CountyDigits == 5
TractDigits == 11

\* n as w decimal digits, leading zeros kept.
RECURSIVE Pow10(_)
Pow10(e) == IF e = 0 THEN 1 ELSE 10 * Pow10(e - 1)

ZeroPadded(n, w) == [i \in 1..w |-> (n \div Pow10(w - i)) % 10]

\* The fips field of a record: five digits of state and county, six of
\* tract, one of block group.
FipsFields ==
  {ZeroPadded(c, 5) \o ZeroPadded(t, 6) \o <<b>> :
     c \in 1..NumCounties, t \in 1..NumTracts, b \in 0..1}

\* sscanf(str, "%ld", &n) on a string of digits.
RECURSIVE ScanDigits(_, _)
ScanDigits(str, n) == IF str = <<>> THEN n ELSE ScanDigits(Tail(str), 10 * n + Head(str))

\* census_tract_fips and county_fips of a record.
census_tract_fips_of(field) == ScanDigits(SubSeq(field, 1, TractDigits), 0)
county_fips_of(field) == ScanDigits(SubSeq(field, 1, CountyDigits), 0)

\* No record read: what read_all_places leaves after its clear calls.
FipsIdle ==
  /\ counties = <<>>
  /\ census_tracts = <<>>
  /\ fips_to_county_map = EmptyMap
  /\ fips_to_census_tract_map = EmptyMap
  /\ fips_seen = {}

\* A County object pushed for every record.
AddCounty_no_find(list, map, county_fips) ==
  [list |-> Append(list, county_fips), map |-> MapPut(map, county_fips, Len(list))]

\* if this is a new county fips code, create a County object.
AddCounty(list, map, county_fips) ==
  IF county_fips \in DOMAIN map
  THEN [list |-> list, map |-> map]
  ELSE [list |-> Append(list, county_fips), map |-> MapPut(map, county_fips, Len(list))]

\* if this is a new census_tracts fips code, create a Census_tract object.
AddCensusTract(list, map, census_tract_fips) ==
  IF census_tract_fips \in DOMAIN map
  THEN [list |-> list, map |-> map]
  ELSE [list |-> Append(list, census_tract_fips),
        map |-> MapPut(map, census_tract_fips, Len(list))]

\* The census tract and county part of one record of `reader` with fips
\* field `field`.
ReadFips(reader, field) ==
  LET tract == AddCensusTract(census_tracts, fips_to_census_tract_map,
                              census_tract_fips_of(field))
      county == AddCounty(counties, fips_to_county_map, county_fips_of(field))
  IN /\ census_tracts' = tract.list
     /\ fips_to_census_tract_map' = tract.map
     /\ counties' = county.list
     /\ fips_to_county_map' = county.map
     /\ fips_seen' = fips_seen \cup {[reader |-> reader, field |-> field]}

\* read_household_file, one record, from the census tract on.
Fips_ReadHousehold ==
  /\ UNCHANGED NotFips
  /\ Cardinality(fips_seen) < MaxFipsFields
  /\ \E field \in FipsFields : ReadFips("household", field)

\* read_group_quarters_file, one record, the census tract and county part.
Fips_ReadGroupQuarters ==
  /\ UNCHANGED NotFips
  /\ Cardinality(fips_seen) < MaxFipsFields
  /\ \E field \in FipsFields : ReadFips("group_quarters", field)

(***************************************************************************)
(* Household-hospital mapping: get_parameters, read_all_places,            *)
(* assign_hospitals_to_households                                          *)
(***************************************************************************)

\* Bounds: households and hospitals of a run that assigns hospitals.
MaxMapHouseholds == 2
MaxMapHosp == 1

\* The label of the k-th household and of the i-th hospital of the input
\* files; UnknownHospLabel is a hospital label no hospital record carries.
HouseholdLabel(k) == <<"H", k>>
HospLabel(i) == <<"M", i>>
UnknownHospLabel == <<"M", 0>>

HouseholdLabels == {HouseholdLabel(k) : k \in 1..MaxMapHouseholds}
HospLabels == {HospLabel(i) : i \in 1..MaxMapHosp} \cup {UnknownHospLabel}

\* Every content of a mapping file: at most one line per household label.
MappingFiles == UNION {[D -> HospLabels] : D \in SUBSET HouseholdLabels}

\* The hospitals of a run: plain, closed, or not accepting the insurance.
MappingHospitals ==
  {PlainHospital, [PlainHospital EXCEPT !.open = FALSE],
   [PlainHospital EXCEPT !.accepts_insurance = FALSE]}

NoFile == [none |-> TRUE, present |-> FALSE, pairs |-> EmptyMap, writes |-> 0]

NoAssignment ==
  [pc |-> "none", i |-> 0, pop |-> <<>>, households |-> <<>>,
   Enable_Health_Insurance |-> FALSE, load_completed |-> FALSE,
   file0 |-> NoFile, entry_map |-> EmptyMap, entry_exists |-> FALSE,
   samples |-> 0, draws |-> 0]

\* No run that assigns hospitals.
MappingIdle ==
  /\ hh_label_hosp_label_map = EmptyMap
  /\ hosp_label_hosp_id_map = EmptyMap
  /\ Household_hospital_map_file_exists = FALSE
  /\ map_file = NoFile
  /\ asg = NoAssignment

\* The program is constructed, Global::Enable_Hospitals is set: the maps are
\* empty, the flag has its static initial value.  The mapping file is not
\* configured ("none"), configured and absent, or present with some pairs;
\* the population files hold households H1..Hn of 0 or more occupants, the
\* hospital file the hospitals of hosp.
MappingReady ==
  /\ hh_label_hosp_label_map = EmptyMap
  /\ hosp_label_hosp_id_map = EmptyMap
  /\ Household_hospital_map_file_exists = FALSE
  /\ \E none \in BOOLEAN, present \in BOOLEAN, pairs \in MappingFiles :
       /\ none => ~present
       /\ ~present => pairs = EmptyMap
       /\ map_file = [none |-> none, present |-> present, pairs |-> pairs, writes |-> 0]
  /\ \E n \in 0..MaxMapHouseholds, sizes \in [1..MaxMapHouseholds -> 0..1], ins \in BOOLEAN :
       asg = [NoAssignment EXCEPT
                !.pc = "start",
                !.pop = [k \in 1..n |-> [label |-> HouseholdLabel(k), size |-> sizes[k],
                                         visitation_hospital |-> NULL]],
                !.Enable_Health_Insurance = ins,
                !.file0 = map_file]
  /\ \E n \in 0..MaxMapHosp : hosp \in [1..n -> MappingHospitals]
  /\ mode = "catchment"
  /\ sel = NoSelection
  /\ panel = NoPanel
  /\ tot_pop_size = 0
  /\ panel_size = 1
  /\ ncalls = 0
  /\ query = NoQuery

\* get_parameters, the part under Global::Enable_Hospitals: the flag, and the
\* lines of the mapping file inserted in hh_label_hosp_label_map.
GetParameters ==
  /\ UNCHANGED NotMapping
  /\ asg.pc = "start"
  /\ IF map_file.none
     THEN /\ Household_hospital_map_file_exists' = FALSE
          /\ UNCHANGED hh_label_hosp_label_map
     ELSE IF map_file.present
          THEN /\ Household_hospital_map_file_exists' = TRUE
               /\ hh_label_hosp_label_map' =
                    [l \in (DOMAIN hh_label_hosp_label_map) \cup (DOMAIN map_file.pairs) |->
                       IF l \in DOMAIN hh_label_hosp_label_map
                       THEN hh_label_hosp_label_map[l] ELSE map_file.pairs[l]]
          ELSE UNCHANGED <<Household_hospital_map_file_exists, hh_label_hosp_label_map>>
  /\ asg' = [asg EXCEPT !.pc = "params_read"]
  /\ UNCHANGED <<hosp_label_hosp_id_map, map_file>>

\* read_all_places that leaves hh_label_hosp_label_map as it finds it.
ReadAllPlaces_keeps_map ==
  /\ UNCHANGED NotMapping
  /\ asg.pc = "params_read"
  /\ hosp_label_hosp_id_map' = [l \in {HospLabel(i) : i \in 1..Len(hosp)} |->
                                  (CHOOSE i \in 1..Len(hosp) : HospLabel(i) = l) - 1]
  /\ asg' = [asg EXCEPT !.pc = "loaded", !.households = asg.pop, !.load_completed = TRUE]
  /\ UNCHANGED <<hh_label_hosp_label_map, Household_hospital_map_file_exists, map_file>>

\* read_all_places: both maps cleared, the households and hospitals of the
\* input files registered (hosp_label_hosp_id_map filled by the hospital
\* reader), load_completed set.
ReadAllPlaces ==
  /\ UNCHANGED NotMapping
  /\ asg.pc = "params_read"
  /\ hh_label_hosp_label_map' = EmptyMap
  /\ hosp_label_hosp_id_map' = [l \in {HospLabel(i) : i \in 1..Len(hosp)} |->
                                  (CHOOSE i \in 1..Len(hosp) : HospLabel(i) = l) - 1]
  /\ asg' = [asg EXCEPT !.pc = "loaded", !.households = asg.pop, !.load_completed = TRUE]
  /\ UNCHANGED <<Household_hospital_map_file_exists, map_file>>

\* assert(hosp != NULL) compiled out.
assert_hosp_off(h) == TRUE

\* assert(hosp != NULL): whether the run goes on.
assert_hosp(h) == h # NULL

\* What get_hospital_assigned_to_household and what follows it in the loop
\* body leave behind.
Resolved(status, h, exists, sampled, draws) ==
  [status |-> status, hosp |-> h, exists |-> exists, sampled |-> sampled, draws |-> draws]

\* 1 when the selection drew from Random::draw_random(), else 0.
DrawsOf(s) == IF s.status = "returned" /\ s.number_possible_hospitals > 0 THEN 1 ELSE 0

\* Hospital* get_hospital_assigned_to_household(Household* hh), the draws of
\* the two selection calls being rand1 and rand2.
get_hospital_assigned_to_household(hh_, rand1, rand2) ==
  IF hh_.label \in DOMAIN hh_label_hosp_label_map
  THEN LET hosp_label == hh_label_hosp_label_map[hh_.label]
       IN IF hosp_label \in DOMAIN hosp_label_hosp_id_map
          THEN Resolved("returned", hosp_label_hosp_id_map[hosp_label] + 1,
                        Household_hospital_map_file_exists, 0, 0)
          ELSE Resolved("returned", NULL, Household_hospital_map_file_exists, 0, 0)
  ELSE IF hh_.size > 0
       THEN LET first == get_random_open_hospital_matching_criteria(
                           hosp, asg.Enable_Health_Insurance, rand1)
                second == get_random_open_hospital_matching_criteria(hosp, FALSE, rand2)
            IN IF first.status = "aborted"
               THEN Resolved("aborted", NULL, FALSE, 1, 0)
               ELSE IF first.result # NULL
                    THEN Resolved("returned", first.result, FALSE, 1, DrawsOf(first))
                    ELSE IF assert_hosp(second.result)
                         THEN Resolved("returned", second.result, FALSE, 1,
                                       DrawsOf(first) + DrawsOf(second))
                         ELSE Resolved("aborted", NULL, FALSE, 1,
                                       DrawsOf(first) + DrawsOf(second))
       ELSE IF assert_hosp(NULL)
            THEN Resolved("returned", NULL, FALSE, 1, 0)
            ELSE Resolved("aborted", NULL, FALSE, 1, 0)

\* The draws the second selection call can take: it is made only when the
\* household has no entry, has occupants and the first call returned NULL.
SecondDraws(hh_, rand1) ==
  IF /\ hh_.label \notin DOMAIN hh_label_hosp_label_map
     /\ hh_.size > 0
     /\ get_random_open_hospital_matching_criteria(
          hosp, asg.Enable_Health_Insurance, rand1).result = NULL
  THEN Draws
  ELSE {0}

\* One pass of the first loop of assign_hospitals_to_households.
Assign_Household ==
  /\ UNCHANGED NotMapping
  /\ asg.pc = "loaded"
  /\ asg.i < Len(asg.households)
  /\ \E rand1 \in Draws : \E rand2 \in SecondDraws(asg.households[asg.i + 1], rand1) :
       LET hh_ == asg.households[asg.i + 1]
           res == get_hospital_assigned_to_household(hh_, rand1, rand2)
           run == [asg EXCEPT !.samples = @ + res.sampled, !.draws = @ + res.draws,
                              !.entry_map = IF asg.i = 0 THEN hh_label_hosp_label_map ELSE @,
                              !.entry_exists = IF asg.i = 0
                                               THEN Household_hospital_map_file_exists ELSE @]
       IN /\ Household_hospital_map_file_exists' = res.exists
          /\ IF res.status = "aborted" \/ ~assert_hosp(res.hosp)
             THEN /\ asg' = [run EXCEPT !.pc = "aborted"]
                  /\ UNCHANGED hh_label_hosp_label_map
             ELSE IF res.hosp # NULL
                  THEN /\ asg' = [run EXCEPT !.i = @ + 1,
                                    !.households[asg.i + 1].visitation_hospital = res.hosp]
                       /\ hh_label_hosp_label_map' =
                            IF hh_.label \in DOMAIN hh_label_hosp_label_map
                            THEN hh_label_hosp_label_map
                            ELSE MapPut(hh_label_hosp_label_map, hh_.label, HospLabel(res.hosp))
                  ELSE /\ asg' = [run EXCEPT !.i = @ + 1]
                       /\ UNCHANGED hh_label_hosp_label_map
  /\ UNCHANGED <<hosp_label_hosp_id_map, map_file>>

\* The rest of assign_hospitals_to_households: the statistics loop with its
\* assert on the visitation hospital, the file written when the flag is
\* unset and a file name is configured, the map cleared.
Assign_Finish ==
  /\ UNCHANGED NotMapping
  /\ asg.pc = "loaded"
  /\ asg.i >= Len(asg.households)
  /\ IF \E k \in 1..Len(asg.households) :
          ~assert_hosp(asg.households[k].visitation_hospital)
     THEN /\ asg' = [asg EXCEPT !.pc = "aborted"]
          /\ UNCHANGED <<hh_label_hosp_label_map, map_file>>
     ELSE /\ asg' = [asg EXCEPT !.pc = "done",
                       !.entry_map = IF Len(asg.households) = 0
                                     THEN hh_label_hosp_label_map ELSE @,
                       !.entry_exists = IF Len(asg.households) = 0
                                        THEN Household_hospital_map_file_exists ELSE @]
          /\ map_file' = IF ~Household_hospital_map_file_exists /\ ~map_file.none
                         THEN [map_file EXCEPT !.present = TRUE,
                                               !.pairs = hh_label_hosp_label_map,
                                               !.writes = @ + 1]
                         ELSE map_file
          /\ hh_label_hosp_label_map' = EmptyMap
  /\ UNCHANGED <<hosp_label_hosp_id_map, Household_hospital_map_file_exists>>

\* ---------------------------------------------------------------------
\* The tail shared by the three selections, on candidate lists taken alone.

\* What the candidate loops can leave for one hospital: not possible, or
\* capacity / distance^2 with increment 1.
CandidateRecords ==
  {NotPossible} \cup
  {[cur_prob |-> Weight(cap, d * d), increment |-> 1] : cap \in 1..MaxCap, d \in 1..MaxDist}

CandidateLists == UNION {[1..n -> CandidateRecords] : n \in 0..NumHosp}

NoWalk == [pc |-> "none", cands |-> <<>>, rand |-> 0, ret |-> NoSelection]

WalkIdle == walk = NoWalk

\* A selection is entered with a list of hospitals, none included; cands is
\* what its candidate loop computes for them and rand what
\* Random::draw_random() will return.
WalkReady ==
  \E cands \in CandidateLists, rand \in Draws :
    walk = [pc |-> "ready", cands |-> cands, rand |-> rand, ret |-> NoSelection]

\* The selection: the test for an empty list, normalise, walk, return.
WalkReturn ==
  /\ walk.pc = "ready"
  /\ \E op \in {"catchment", "daily", "primary"} :
       walk' = [walk EXCEPT !.pc = "done", !.ret = Selection(op, walk.cands, walk.rand)]
  /\ UNCHANGED NotWalk

\* ---------------------------------------------------------------------
\* read_group_quarters_file: the subtype and the number of units of a record
\* ---------------------------------------------------------------------
MaxGQFiles == 2
MaxGQLines == 3
MaxCapacity == 2
MaxGQMeanSize == 2

\* The type codes the reader knows (college, military, prison, nursing
\* home) and one it does not.
KnownGQTypes == {"C", "M", "P", "N"}
GQTypeCodes == KnownGQTypes \cup {"X"}

\* Place::SUBTYPE_* of a known type code.
SubtypeOfCode(code) ==
  CASE code = "C" -> "college"
    [] code = "M" -> "military_base"
    [] code = "P" -> "prison"
    [] code = "N" -> "nursing_home"

\* int number_of_units = 0; capacity / mean size for a known type; 1 if 0.
UnitsOfRecord(code, capacity, mean_size) ==
  LET number_of_units == IF code \in KnownGQTypes THEN capacity \div mean_size[code] ELSE 0
  IN IF number_of_units = 0 THEN 1 ELSE number_of_units

\* place_subtype after the four tests on the type field: it is assigned for
\* a known code and left as it was otherwise.
SubtypeAfterRecord(code, place_subtype) ==
  IF code \in KnownGQTypes THEN SubtypeOfCode(code) ELSE place_subtype

\* No group-quarters file read record by record.
GQFileIdle ==
  gqf = [pc |-> "idle", mean_size |-> [code \in KnownGQTypes |-> 1], place_subtype |-> "none",
         files |-> 0, lines |-> <<>>]

\* The mean unit sizes are read (get_parameters); no file is open.
GQFileReady ==
  \E mean_size \in [KnownGQTypes -> 1..MaxGQMeanSize] :
    gqf = [pc |-> "closed", mean_size |-> mean_size, place_subtype |-> "none",
           files |-> 0, lines |-> <<>>]

\* A call of read_group_quarters_file up to its loop: the locals are
\* initialised, place_subtype to SUBTYPE_NONE.
ReadGQFile_Open ==
  /\ gqf.pc = "closed"
  /\ gqf.files < MaxGQFiles
  /\ gqf' = [gqf EXCEPT !.pc = "reading", !.files = @ + 1, !.place_subtype = "none"]
  /\ UNCHANGED NotGQFile

\* One record: the number of units and the subtype the workplace, the
\* household and its unit households are added with.
ReadGQFile_Record ==
  /\ gqf.pc = "reading"
  /\ Len(gqf.lines) < MaxGQLines
  /\ \E code \in GQTypeCodes, capacity \in 0..MaxCapacity :
       LET subtype == SubtypeAfterRecord(code, gqf.place_subtype)
           units == UnitsOfRecord(code, capacity, gqf.mean_size)
       IN gqf' = [gqf EXCEPT !.place_subtype = subtype,
                             !.lines = Append(@, [file |-> gqf.files, type |-> code,
                                                  capacity |-> capacity,
                                                  subtype |-> subtype, units |-> units])]
  /\ UNCHANGED NotGQFile

\* fgets returns NULL: the file is closed.
ReadGQFile_Eof ==
  /\ gqf.pc = "reading"
  /\ gqf' = [gqf EXCEPT !.pc = "closed"]
  /\ UNCHANGED NotGQFile

\* ---------------------------------------------------------------------
\* setup_households: householders, the income order, the selection called
\* ---------------------------------------------------------------------
MaxSetupHouseholds == 2
MaxSetupPersons == 2
MaxAge == 1
MaxIncome == 1

\* int max_age = -99
NoAge == -99

\* A Person as setup_households sees it: its age and whether its
\* relationship is Global::HOUSEHOLDER.
SetupPersons == [age : 0..MaxAge, householder : BOOLEAN]

\* An occupant who is not a householder, of the lowest age.
PlainPerson == [age |-> 0, householder |-> FALSE]

\* The households a run can start from: ids in creation order, incomes
\* from Incomes, occupants from Persons.
SetupLoads(Incomes, Persons) ==
  UNION {UNION {
    {[k \in 1..n |-> [id |-> k, index |-> -1, income |-> income[k],
                      enrollees |-> [q \in 1..size[k] |->
                                       person[SeqSum([m \in 1..(k - 1) |-> size[m]]) + q]]]] :
       income \in [1..n -> Incomes],
       person \in [1..SeqSum(size) -> Persons]} :
    size \in {s \in [1..n -> 0..MaxSetupPersons] : SeqSum(s) <= MaxSetupPersons}} :
  n \in 0..MaxSetupHouseholds}

\* A plausible slip: a later occupant of the same age takes over.
Older_or_equal(age, max_age) == age >= max_age

\* if(age > max_age)
Older(age, max_age) == age > max_age

\* The first loop over the occupants, from occupant j on: it stops at the
\* first householder, and tracks the oldest occupant seen before.
RECURSIVE ScanForHouseholder(_, _, _, _)
ScanForHouseholder(enrollees, j, max_age, person_with_max_age) ==
  IF j > Len(enrollees)
  THEN [head_of_household |-> NULL, person_with_max_age |-> person_with_max_age]
  ELSE IF enrollees[j].householder
       THEN [head_of_household |-> j, person_with_max_age |-> person_with_max_age]
       ELSE IF Older(enrollees[j].age, max_age)
            THEN ScanForHouseholder(enrollees, j + 1, enrollees[j].age, j)
            ELSE ScanForHouseholder(enrollees, j + 1, max_age, person_with_max_age)

\* head_of_household after the first loop and the test that follows it (an
\* occupant's position in the household, NULL if both pointers are NULL).
HeadOfHousehold(enrollees) ==
  LET scan == ScanForHouseholder(enrollees, 1, NoAge, NULL)
  IN IF scan.head_of_household = NULL
     THEN scan.person_with_max_age
     ELSE scan.head_of_household

\* The occupants after make_householder on the head and the second loop,
\* which makes every other householder a housemate.
WithHouseholder(enrollees, head_of_household) ==
  [j \in DOMAIN enrollees |->
     [enrollees[j] EXCEPT !.householder = (j = head_of_household)]]

\* A plausible slip: the order is from highest income to lowest.
compare_household_incomes_descending(h1, h2) ==
  IF h1.income = h2.income THEN h1.id < h2.id ELSE h1.income > h2.income

\* static bool compare_household_incomes(Place* h1, Place* h2)
compare_household_incomes(h1, h2) ==
  IF h1.income = h2.income THEN h1.id < h2.id ELSE h1.income < h2.income

\* std::sort(households.begin(), households.end(), compare_household_incomes)
SortHouseholds(hs) ==
  LET n == Len(hs)
      perm == CHOOSE t \in [1..n -> 1..n] :
                /\ \A a, b \in 1..n : t[a] = t[b] => a = b
                /\ \A a, b \in 1..n : a < b => compare_household_incomes(hs[t[a]], hs[t[b]])
  IN [k \in 1..n |-> hs[perm[k]]]

\* A plausible slip: the two flags are tested one after the other.
SelectionsCalled_both(Enable_Household_Shelter, Enable_HAZEL) ==
  (IF Enable_Household_Shelter THEN <<"shelter">> ELSE <<>>)
    \o (IF Enable_HAZEL THEN <<"evacuation">> ELSE <<>>)

\* if(Enable_Household_Shelter) select_households_for_shelter();
\* else if(Enable_HAZEL) select_households_for_evacuation();
SelectionsCalled(Enable_Household_Shelter, Enable_HAZEL) ==
  IF Enable_Household_Shelter THEN <<"shelter">>
  ELSE IF Enable_HAZEL THEN <<"evacuation">>
  ELSE <<>>

\* The ids of the households select_households_for_shelter hands to
\* shelter_household: positions num_households - 1 - i in income mode, the
\* first num_sheltering of a shuffle otherwise.
ShelterSelections(hs, High_income_households_sheltering, num_sheltering) ==
  IF High_income_households_sheltering
  THEN {{hs[Len(hs) - i].id : i \in 0..(num_sheltering - 1)}}
  ELSE {{hs[t[i]].id : i \in 1..num_sheltering} : t \in Shuffles(Len(hs))}

SetupIdle ==
  setup = [pc |-> "idle", p |-> 0, households |-> <<>>, loaded |-> <<>>,
           Enable_Household_Shelter |-> FALSE, Enable_HAZEL |-> FALSE,
           High_income_households_sheltering |-> FALSE, Pct_households_sheltering |-> 0,
           called |-> <<>>, sheltered |-> {}]

\* setup_households is about to run on a loaded population.
SetupReady(Incomes, Persons) ==
  \E hs \in SetupLoads(Incomes, Persons) :
    setup = [pc |-> "houses", p |-> 0, households |-> hs, loaded |-> hs,
             Enable_Household_Shelter |-> FALSE, Enable_HAZEL |-> FALSE,
             High_income_households_sheltering |-> FALSE, Pct_households_sheltering |-> 0,
             called |-> <<>>, sheltered |-> {}]

\* One iteration of the loop over the households: set_index, and for a
\* household with occupants the householder.  assert(person_with_max_age !=
\* NULL) aborts the run.
Setup_House ==
  /\ setup.pc = "houses"
  /\ setup.p < Len(setup.households)
  /\ LET house == setup.households[setup.p + 1]
         head_of_household == HeadOfHousehold(house.enrollees)
     IN IF Len(house.enrollees) = 0
        THEN setup' = [setup EXCEPT !.households[setup.p + 1].index = setup.p, !.p = @ + 1]
        ELSE IF head_of_household = NULL
             THEN setup' = [setup EXCEPT !.pc = "aborted"]
             ELSE setup' = [setup EXCEPT
                              !.households[setup.p + 1] =
                                 [house EXCEPT !.index = setup.p,
                                               !.enrollees = WithHouseholder(@, head_of_household)],
                              !.p = @ + 1]
  /\ UNCHANGED NotSetup

\* After the loop: the sort and the reset of the household indexes.
Setup_Sort ==
  /\ setup.pc = "houses"
  /\ setup.p >= Len(setup.households)
  /\ LET sorted == SortHouseholds(setup.households)
     IN setup' = [setup EXCEPT
                    !.pc = "sorted",
                    !.households = [i \in DOMAIN sorted |-> [sorted[i] EXCEPT !.index = i - 1]]]
  /\ UNCHANGED NotSetup

\* The end of setup_households: the selection the flags call for, with the
\* flags and parameters as the configuration of the run has them.
Setup_Select ==
  /\ setup.pc = "sorted"
  /\ \E Enable_Household_Shelter \in BOOLEAN, Enable_HAZEL \in BOOLEAN,
        High_income_households_sheltering \in BOOLEAN, Pct \in 0..PctDen :
       LET called == SelectionsCalled(Enable_Household_Shelter, Enable_HAZEL)
           num_sheltering == NumSheltering(Pct, Len(setup.households))
       IN \E sheltered \in IF \E c \in DOMAIN called : called[c] = "shelter"
                           THEN ShelterSelections(setup.households,
                                                  High_income_households_sheltering,
                                                  num_sheltering)
                           ELSE {{}} :
            setup' = [setup EXCEPT
                        !.pc = "done",
                        !.Enable_Household_Shelter = Enable_Household_Shelter,
                        !.Enable_HAZEL = Enable_HAZEL,
                        !.High_income_households_sheltering = High_income_households_sheltering,
                        !.Pct_households_sheltering = Pct,
                        !.called = called,
                        !.sheltered = sheltered]
  /\ UNCHANGED NotSetup

\* ---------------------------------------------------------------------
\* reassign_workers_to_schools, _to_places_of_type, _to_group_quarters
\* ---------------------------------------------------------------------
MaxRWPlaces == 2
MaxWorkers == 1
MaxEnrolled == 1
MaxFixedStaff == 1
MaxStaffRatio == 1

\* The places of a run.  n is what the staff is computed from: the
\* original number of students of a school, the employee count of a
\* hospital, the size of a workplace (its workers).  inside tells whether
\* the regional grid has a patch at the coordinates.
RWPlaces ==
  [kind : {"workplace", "gq_workplace"}, inside : BOOLEAN, n : {0}, workers : 0..MaxWorkers]
    \cup [kind : {"school", "hospital"}, inside : BOOLEAN, n : 0..MaxEnrolled, workers : {0}]

RWSize(place) == IF place.kind \in {"workplace", "gq_workplace"} THEN place.workers ELSE place.n

\* The three loops: the kind of place each takes as a target.
TargetKind(op) ==
  CASE op = "schools" -> "school"
    [] op = "places_of_type" -> "hospital"
    [] op = "group_quarters" -> "gq_workplace"

\* int staff = fixed_staff; if(staff_ratio > 0.0) staff += 0.5 + n / staff_ratio
DesiredStaff(fixed_staff, n, staff_ratio) ==
  IF staff_ratio > 0
  THEN fixed_staff + (staff_ratio + 2 * n) \div (2 * staff_ratio)
  ELSE fixed_staff

\* A plausible slip: any workplace will do.
HasEnoughWorkers_always(place, staff) == TRUE

\* A workplace with at least `staff` workers.
HasEnoughWorkers(place, staff) == place.workers >= staff

\* What regional_patch->get_nearby_workplace(place, staff) can return: a
\* workplace of the grid, other than the target, with enough workers.
NearbyWorkplaces(ps, target, staff) ==
  {w \in DOMAIN ps :
     /\ w # target
     /\ ps[w].kind \in {"workplace", "gq_workplace"}
     /\ ps[w].inside
     /\ HasEnoughWorkers(ps[w], staff)}

\* nearby_workplace->reassign_workers(place) and turn_workers_into_teachers:
\* every worker of the workplace found becomes staff of the target.
TransferWorkers(ps, from, to) ==
  [ps EXCEPT ![to].workers = @ + ps[from].workers, ![from].workers = 0]

NoTarget == [target |-> 0, outcome |-> "none", staff |-> 0, nearby_workplace |-> NULL]

ReassignIdle ==
  rw = [pc |-> "idle", op |-> "none", fixed_staff |-> 0, staff_ratio |-> 0, p |-> 0,
        places |-> <<>>, last |-> NoTarget]

\* reassign_workers is about to run: the places are loaded, the grid built.
ReassignReady ==
  \E n \in 0..MaxRWPlaces : \E ps \in [1..n -> RWPlaces] :
    rw = [pc |-> "ready", op |-> "none", fixed_staff |-> 0, staff_ratio |-> 0, p |-> 0,
          places |-> ps, last |-> NoTarget]

\* The place the loop is at (positions from 1), and its target staff.
RWPlace == rw.places[rw.p + 1]
RWStaff == DesiredStaff(rw.fixed_staff, RWSize(RWPlace), rw.staff_ratio)

\* reassign_workers calls one of the three loops with its staff parameters.
Reassign_Enter ==
  /\ rw.pc = "ready"
  /\ \E op \in {"schools", "places_of_type", "group_quarters"},
        fixed_staff \in 0..MaxFixedStaff, staff_ratio \in 0..MaxStaffRatio :
       rw' = [rw EXCEPT !.pc = "loop", !.op = op, !.fixed_staff = fixed_staff,
                        !.staff_ratio = staff_ratio, !.p = 0]
  /\ UNCHANGED NotReassign

\* The place is not of the kind the loop looks for.
Reassign_NotATarget ==
  /\ rw.pc = "loop"
  /\ rw.p < Len(rw.places)
  /\ RWPlace.kind # TargetKind(rw.op)
  /\ rw' = [rw EXCEPT !.p = @ + 1]
  /\ UNCHANGED NotReassign

\* get_patch returns NULL: the target is logged as outside the region.
Reassign_Outside ==
  /\ rw.pc = "loop"
  /\ rw.p < Len(rw.places)
  /\ RWPlace.kind = TargetKind(rw.op)
  /\ ~RWPlace.inside
  /\ rw' = [rw EXCEPT !.p = @ + 1,
                      !.last = [target |-> rw.p + 1, outcome |-> "outside", staff |-> 0,
                                nearby_workplace |-> NULL]]
  /\ UNCHANGED NotReassign

\* get_nearby_workplace returns NULL: logged, nothing else.
Reassign_NotFound ==
  /\ rw.pc = "loop"
  /\ rw.p < Len(rw.places)
  /\ RWPlace.kind = TargetKind(rw.op)
  /\ RWPlace.inside
  /\ NearbyWorkplaces(rw.places, rw.p + 1, RWStaff) = {}
  /\ rw' = [rw EXCEPT !.p = @ + 1,
                      !.last = [target |-> rw.p + 1, outcome |-> "not_found", staff |-> RWStaff,
                                nearby_workplace |-> NULL]]
  /\ UNCHANGED NotReassign

\* A workplace is found: all its workers go to the target.
Reassign_Transfer ==
  /\ rw.pc = "loop"
  /\ rw.p < Len(rw.places)
  /\ RWPlace.kind = TargetKind(rw.op)
  /\ RWPlace.inside
  /\ \E nearby_workplace \in NearbyWorkplaces(rw.places, rw.p + 1, RWStaff) :
       rw' = [rw EXCEPT !.p = @ + 1,
                        !.places = TransferWorkers(@, nearby_workplace, rw.p + 1),
                        !.last = [target |-> rw.p + 1, outcome |-> "transferred",
                                  staff |-> RWStaff, nearby_workplace |-> nearby_workplace]]
  /\ UNCHANGED NotReassign

\* The loop is over; reassign_workers goes on with its next call.
Reassign_Exit ==
  /\ rw.pc = "loop"
  /\ rw.p >= Len(rw.places)
  /\ rw' = [rw EXCEPT !.pc = "ready", !.op = "none", !.last = NoTarget]
  /\ UNCHANGED NotReassign

\* ---------------------------------------------------------------------
\* shelter_household and the per-household part of
\* select_households_for_evacuation, one draw at a time
\* ---------------------------------------------------------------------

\* A plausible slip: the early loop tests the draw only.
EarlyContinues_unguarded(shelter_start_day, r, Early_shelter_rate) == r < Early_shelter_rate

\* while(shelter_start_day > 0 && r < Early_shelter_rate)
EarlyContinues(shelter_start_day, r, Early_shelter_rate) ==
  shelter_start_day > 0 /\ r < Early_shelter_rate

\* while(shelter_duration < Shelter_duration_mean && Shelter_decay_rate < r)
DecayContinues(shelter_duration, Shelter_duration_mean, Shelter_decay_rate, r) ==
  shelter_duration < Shelter_duration_mean /\ Shelter_decay_rate < r

NoLoop ==
  [op |-> "none", pc |-> "idle",
   Early_shelter_rate |-> 0, Shelter_decay_rate |-> 0, Shelter_duration_mean |-> 0,
   drawn_start_day |-> 0, shelter_start_day |-> 0, shelter_duration |-> 0, r |-> 0,
   early_iterations |-> 0, decay_iterations |-> 0,
   HAZEL_disaster_evac_prob_per_day |-> 0,
   evac_start_sim_day |-> 0, evac_end_sim_day |-> 0,
   return_start_sim_day |-> 0, return_end_sim_day |-> 0,
   j |-> 0, k |-> 0, draws |-> 0, evac_date_set |-> FALSE, return_date_set |-> FALSE]

LoopsIdle == lp = NoLoop

\* shelter_household is called on a household, or
\* select_households_for_evacuation, past its entry guard, comes to a
\* household.
LoopsReady ==
  \/ \E early \in Rates, decay \in Rates, mean \in 0..MaxMean :
       lp = [NoLoop EXCEPT !.op = "shelter", !.pc = "start",
                           !.Early_shelter_rate = early,
                           !.Shelter_decay_rate = decay,
                           !.Shelter_duration_mean = mean]
  \/ \E prob \in Rates, evac_end \in 0..MaxWindow,
        return_start \in 0..MaxWindow, return_end \in 0..MaxWindow :
       lp = [NoLoop EXCEPT !.op = "evacuation", !.pc = "start",
                           !.HAZEL_disaster_evac_prob_per_day = prob,
                           !.evac_end_sim_day = evac_end,
                           !.return_start_sim_day = return_start,
                           !.return_end_sim_day = return_end]

\* The delay is drawn; with a positive early rate the first uniform draw.
SH_DrawDelay ==
  /\ lp.op = "shelter" /\ lp.pc = "start"
  /\ \E delay \in NormalDraws :
       IF lp.Early_shelter_rate > 0
       THEN \E r \in Draws :
              lp' = [lp EXCEPT !.pc = "early", !.r = r,
                               !.drawn_start_day = NormalToInt(delay),
                               !.shelter_start_day = NormalToInt(delay)]
       ELSE lp' = [lp EXCEPT !.pc = "duration",
                             !.drawn_start_day = NormalToInt(delay),
                             !.shelter_start_day = ClampStart(NormalToInt(delay))]
  /\ UNCHANGED NotLoops

\* One iteration of the early loop.
SH_EarlyIterate ==
  /\ lp.op = "shelter" /\ lp.pc = "early"
  /\ EarlyContinues(lp.shelter_start_day, lp.r, lp.Early_shelter_rate)
  /\ \E r \in Draws :
       lp' = [lp EXCEPT !.shelter_start_day = @ - 1, !.r = r, !.early_iterations = @ + 1]
  /\ UNCHANGED NotLoops

\* The early loop is left; the start day is clamped at 0.
SH_EarlyLeave ==
  /\ lp.op = "shelter" /\ lp.pc = "early"
  /\ ~EarlyContinues(lp.shelter_start_day, lp.r, lp.Early_shelter_rate)
  /\ lp' = [lp EXCEPT !.pc = "duration", !.shelter_start_day = ClampStart(@)]
  /\ UNCHANGED NotLoops

\* The duration is drawn and clamped at 1; with a positive decay rate a
\* uniform draw below 0.5 restarts it from 1 and draws again.
SH_DrawDuration ==
  /\ lp.op = "shelter" /\ lp.pc = "duration"
  /\ \E length \in NormalDraws :
       LET drawn == NormalToInt(length)
           clamped == IF drawn < 1 THEN 1 ELSE drawn
       IN IF lp.Shelter_decay_rate > 0
          THEN \E r \in Draws :
                 IF 2 * r < Prec
                 THEN \E r2 \in Draws :
                        lp' = [lp EXCEPT !.pc = "decay", !.shelter_duration = 1, !.r = r2]
                 ELSE lp' = [lp EXCEPT !.pc = "done", !.shelter_duration = clamped, !.r = r]
          ELSE lp' = [lp EXCEPT !.pc = "done", !.shelter_duration = clamped]
  /\ UNCHANGED NotLoops

\* One iteration of the decay loop.
SH_DecayIterate ==
  /\ lp.op = "shelter" /\ lp.pc = "decay"
  /\ DecayContinues(lp.shelter_duration, lp.Shelter_duration_mean, lp.Shelter_decay_rate, lp.r)
  /\ \E r \in Draws :
       lp' = [lp EXCEPT !.shelter_duration = @ + 1, !.r = r, !.decay_iterations = @ + 1]
  /\ UNCHANGED NotLoops

\* The decay loop is left; set_shelter_end_day.
SH_DecayLeave ==
  /\ lp.op = "shelter" /\ lp.pc = "decay"
  /\ ~DecayContinues(lp.shelter_duration, lp.Shelter_duration_mean, lp.Shelter_decay_rate, lp.r)
  /\ lp' = [lp EXCEPT !.pc = "done"]
  /\ UNCHANGED NotLoops

\* The loop over the evacuation window starts for the household.
EV_Household ==
  /\ lp.op = "evacuation" /\ lp.pc = "start"
  /\ lp' = [lp EXCEPT !.pc = "evac_day", !.j = lp.evac_start_sim_day]
  /\ UNCHANGED NotLoops

\* One day of the evacuation window: one draw.
EV_Day ==
  /\ lp.op = "evacuation" /\ lp.pc = "evac_day"
  /\ lp.j <= lp.evac_end_sim_day
  /\ \E r \in Draws :
       IF r < lp.HAZEL_disaster_evac_prob_per_day
       THEN lp' = [lp EXCEPT !.pc = "return_day", !.draws = @ + 1, !.evac_date_set = TRUE,
                             !.shelter_start_day = lp.j, !.k = lp.return_start_sim_day]
       ELSE lp' = [lp EXCEPT !.draws = @ + 1, !.j = @ + 1]
  /\ UNCHANGED NotLoops

\* The evacuation window is over without an evacuation.
EV_NoEvacuation ==
  /\ lp.op = "evacuation" /\ lp.pc = "evac_day"
  /\ lp.j > lp.evac_end_sim_day
  /\ lp' = [lp EXCEPT !.pc = "done"]
  /\ UNCHANGED NotLoops

\* One day of the return window: one draw; a return day set ends both loops.
EV_ReturnDay ==
  /\ lp.op = "evacuation" /\ lp.pc = "return_day"
  /\ lp.k <= lp.return_end_sim_day
  /\ \E r \in Draws :
       IF (r < lp.HAZEL_disaster_evac_prob_per_day \/ lp.k = lp.return_end_sim_day) /\ CanReturn(lp.k, lp.j)
       THEN lp' = [lp EXCEPT !.pc = "done", !.draws = @ + 1, !.return_date_set = TRUE]
       ELSE lp' = [lp EXCEPT !.draws = @ + 1, !.k = @ + 1]
  /\ UNCHANGED NotLoops

\* The return window is over without a return day: assert(return_date_set)
\* aborts the run.
EV_ReturnOver ==
  /\ lp.op = "evacuation" /\ lp.pc = "return_day"
  /\ lp.k > lp.return_end_sim_day
  /\ lp' = [lp EXCEPT !.pc = "aborted"]
  /\ UNCHANGED NotLoops

\* ---------------------------------------------------------------------
\* read_all_places: the files, the layers, load_completed
\*
\* One coordinate stands for the latitude and the longitude; a read_places
\* call reads at most one record.
\* ---------------------------------------------------------------------
MaxDemes == 2
MaxPopIds == 1
MaxLoadCoord == 2

\* Demes: the number of synthetic population ids of each deme (the asserts
\* at 551-552 and 559 hold: at least one deme, at least one id in each).
DemeLists == UNION {[1..n -> 1..MaxPopIds] : n \in 1..MaxDemes}

\* What one read_places call reads: nothing, or one record of a household,
\* a workplace or a hospital file.
LoadRecords ==
  {[kind |-> "none", lat |-> 0]}
    \cup [kind : {"household", "workplace", "hospital"}, lat : 0..MaxLoadCoord]

\* update_geo_boundaries on the box of ra, for the readers that call it.
BoxAfter(box, rec) ==
  IF rec.kind \in {"household", "hospital"} /\ rec.lat # 0
  THEN [min_lat |-> IF rec.lat < box.min_lat THEN rec.lat ELSE box.min_lat,
        max_lat |-> IF box.max_lat < rec.lat THEN rec.lat ELSE box.max_lat]
  ELSE box

\* A plausible slip: the layers are created once the first deme is read.
AllDemesRead_first(d, demes) == d >= 1

\* The loop over the demes is over.
AllDemesRead(d, demes) == d >= Len(demes)

\* Global::Neighborhoods->get_patch(row, col) for a household: the patch at
\* its coordinates, none outside the extent the layers were created with.
PatchesAt(lat, region) ==
  IF region.min_lat <= lat /\ lat <= region.max_lat THEN {lat} ELSE {}

NoRegion == [exists |-> FALSE, min_lat |-> 0, max_lat |-> 0, workplaces |-> 0, hospitals |-> 0]

LoadStart(demes) ==
  [pc |-> "reading", Demes |-> demes, d |-> 0, i |-> 0, files_read |-> 0,
   box |-> [min_lat |-> BoxInit, max_lat |-> -BoxInit],
   households |-> <<>>, workplaces |-> 0, hospitals |-> 0,
   Simulation_Region |-> NoRegion, regions_created |-> 0,
   p |-> 0, inserted |-> <<>>, load_completed |-> FALSE]

LoadIdle == ra = [LoadStart(<<>>) EXCEPT !.pc = "idle"]

\* read_all_places has cleared the lists and reset the box.
LoadReady == \E demes \in DemeLists : ra = LoadStart(demes)

\* One call read_places(pop_dir, Demes[d][i], d).
RA_ReadPlaces ==
  /\ ra.pc = "reading"
  /\ ~AllDemesRead(ra.d, ra.Demes)
  /\ \E rec \in LoadRecords :
       ra' = [ra EXCEPT
                !.files_read = @ + 1,
                !.box = BoxAfter(@, rec),
                !.households = IF rec.kind = "household"
                               THEN Append(@, [lat |-> rec.lat, patch |-> {}])
                               ELSE @,
                !.workplaces = IF rec.kind = "workplace" THEN @ + 1 ELSE @,
                !.hospitals = IF rec.kind = "hospital" THEN @ + 1 ELSE @,
                !.i = IF ra.i + 1 < ra.Demes[ra.d + 1] THEN ra.i + 1 ELSE 0,
                !.d = IF ra.i + 1 < ra.Demes[ra.d + 1] THEN ra.d ELSE ra.d + 1]
  /\ UNCHANGED NotLoad

\* After the loops: new Regional_Layer(min_lon, min_lat, max_lon, max_lat)
\* and new Neighborhood_Layer().
RA_CreateLayers ==
  /\ ra.pc = "reading"
  /\ AllDemesRead(ra.d, ra.Demes)
  /\ ra' = [ra EXCEPT
              !.pc = "households",
              !.Simulation_Region = [exists |-> TRUE, min_lat |-> ra.box.min_lat,
                                     max_lat |-> ra.box.max_lat,
                                     workplaces |-> 0, hospitals |-> 0],
              !.regions_created = @ + 1,
              !.p = 0]
  /\ UNCHANGED NotLoad

\* One iteration of the loop over the households: the patch is looked up,
\* assert(patch != NULL) aborts the run, the household is added to the
\* patch and given the back-reference.
RA_AddHousehold ==
  /\ ra.pc = "households"
  /\ ra.p < Len(ra.households)
  /\ LET patches == PatchesAt(ra.households[ra.p + 1].lat, ra.Simulation_Region)
     IN IF patches = {}
        THEN ra' = [ra EXCEPT !.pc = "aborted"]
        ELSE ra' = [ra EXCEPT
                      !.p = @ + 1,
                      !.inserted = Append(@, [household |-> ra.p + 1,
                                              patch |-> CHOOSE x \in patches : TRUE]),
                      !.households[ra.p + 1].patch = patches]
  /\ UNCHANGED NotLoad

\* Neighborhoods->setup(), then every workplace is added to the regional
\* layer.
RA_AddWorkplaces ==
  /\ ra.pc = "households"
  /\ ra.p >= Len(ra.households)
  /\ ra' = [ra EXCEPT !.pc = "hospitals", !.Simulation_Region.workplaces = ra.workplaces]
  /\ UNCHANGED NotLoad

\* Every hospital is added to the regional layer.
RA_AddHospitals ==
  /\ ra.pc = "hospitals"
  /\ ra' = [ra EXCEPT !.pc = "completing", !.Simulation_Region.hospitals = ra.hospitals]
  /\ UNCHANGED NotLoad

\* this->load_completed = true
RA_Complete ==
  /\ ra.pc = "completing"
  /\ ra' = [ra EXCEPT !.pc = "done", !.load_completed = TRUE]
  /\ UNCHANGED NotLoad

SpecRegistryInit == RegistryInit /\ GQIdle /\ HospitalIdle /\ ShelterIdle /\ WalkIdle /\ MappingIdle /\ GeoIdle /\ FipsIdle /\ GQFileIdle /\ SetupIdle /\ ReassignIdle /\ LoopsIdle /\ LoadIdle

SpecRegistryNext == RegAddPlace \/ RegGetPlaceFromLabel

\* Any sequence of add_place and get_place_from_label calls on a fresh registry.
SpecRegistry == SpecRegistryInit /\ [][SpecRegistryNext]_vars

RegistryFrame == UNCHANGED <<places, place_label_map, next_place_id, households,
                             neighborhoods, schools, workplaces, hospitals>>

\* C1: after any sequence of add_place calls the registered places have
\* pairwise distinct labels and pairwise distinct ids, the ids increase in
\* creation order, and every id handed out is below the counter, so no later
\* place can receive it.
C1_UniqueIdsAndLabels ==
  /\ \A i, j \in DOMAIN places :
       i < j => /\ places[i].id < places[j].id
                /\ places[i].label # places[j].label
  /\ \A i \in DOMAIN places : places[i].id < next_place_id

\* C1 witness: three places are registered and the last call repeated a label.
C1_Witness ==
  /\ Len(places) = 3
  /\ call.op = "add_place"
  /\ call.dup

\* C2 as stated: for every label L passed to add_place, get_place_from_label(L)
\* returns exactly the place add_place created for L.
C2_RoundTripEveryLabel ==
  \A L \in DOMAIN added :
    /\ get_place_from_label(L) = {added[L]}
    /\ places[added[L]].label = L

\* C2 amended: the round trip holds for every registered label other than the
\* sentinel "-1" (for which get_place_from_label returns NULL), and for every
\* registered label the id stored in the label map indexes that place in the
\* places list.
C2_RoundTripExceptSentinel ==
  /\ \A L \in DOMAIN added :
       L # "-1" => /\ get_place_from_label(L) = {added[L]}
                   /\ places[added[L]].label = L
  /\ "-1" \in DOMAIN added => get_place_from_label("-1") = {NULL}
  /\ DOMAIN place_label_map = DOMAIN added
  /\ \A L \in DOMAIN place_label_map :
       /\ place_label_map[L] + 1 = added[L]
       /\ places[place_label_map[L] + 1].label = L

\* C2 witness: a lookup of a registered, non-sentinel label returned the place
\* created for it, with another place registered after it.
C2_Witness ==
  /\ call.op = "get_place_from_label"
  /\ call.label \in DOMAIN added
  /\ call.label # "-1"
  /\ call.ret = added[call.label]
  /\ call.ret < Len(places)

\* C3 as stated: an add_place call on an already registered label returns the
\* existing place (the one carrying that label) and leaves the registry
\* unchanged.
C3_DuplicateReturnsExisting ==
  [][(call'.op = "add_place" /\ call'.dup) =>
       /\ RegistryFrame
       /\ call'.ret # NULL
       /\ places[call'.ret].label = call'.label]_vars

\* The frame part of C3 alone: a duplicate call changes no registry member.
DuplicateLeavesRegistryUnchanged ==
  [][(call'.op = "add_place" /\ call'.dup) => RegistryFrame]_vars

(***************************************************************************)
(* Specification: setup_group_quarters on a loaded population              *)
(***************************************************************************)

SpecGQInit == RegistryInit /\ GQLoaded /\ HospitalIdle /\ ShelterIdle /\ WalkIdle /\ MappingIdle /\ GeoIdle /\ FipsIdle /\ GQFileIdle /\ SetupIdle /\ ReassignIdle /\ LoopsIdle /\ LoadIdle

SpecGQNext ==
  \/ GQ_Enter
  \/ GQ_NextHouse
  \/ GQ_SmallerHead
  \/ GQ_SmallerFill
  \/ GQ_LargerHead
  \/ GQ_LargerFill
  \/ GQ_Exit

SpecGQ == SpecGQInit /\ [][SpecGQNext]_vars

(***************************************************************************)
(* Specification: hospital selection and primary-care panel assignment     *)
(***************************************************************************)

SpecHospitalInit == RegistryInit /\ GQIdle /\ HospitalsLoaded /\ ShelterIdle /\ WalkIdle /\ MappingIdle /\ GeoIdle /\ FipsIdle /\ GQFileIdle /\ SetupIdle /\ ReassignIdle /\ LoopsIdle /\ LoadIdle

SpecHospitalNext ==
  \/ SelectCatchment
  \/ SelectDaily
  \/ PreparePrimaryCare
  \/ AssignPrimaryCare

SpecHospital == SpecHospitalInit /\ [][SpecHospitalNext]_vars

\* The households hh holds for the group quarters whose household is at index
\* k with `units` units: that household and the units - 1 after it.
UnitsOf(k, units) == k..(k + units - 1)

\* The household at index k of the load is the household of a group-quarters
\* record (the one set_group_quarters_units was called on).
IsGroupQuarters(k) == gq_orig[k].gq /\ gq_orig[k].units >= 1

\* C4: after setup_group_quarters, for every group-quarters household of
\* occupancy size and units >= 1 units, the sizes of the household and its
\* units - 1 unit households add up to size, and each of them is size div units
\* or size div units + 1.
C4_PartitionConservation ==
  gq.pc = "done" =>
    \A k \in DOMAIN gq_orig :
      IsGroupQuarters(k) =>
        LET size == get_size(gq_orig[k])
            units == gq_orig[k].units
        IN /\ SeqSum([m \in 1..units |-> get_size(hh[k + m - 1])]) = size
           /\ \A m \in UnitsOf(k, units) :
                get_size(hh[m]) \in {size \div units, size \div units + 1}

\* C4 witness: partitioning has finished for a load with a group quarters of
\* three units and five occupants (two larger units) and one with fewer
\* occupants than units.
C4_Witness ==
  /\ gq.pc = "done"
  /\ \E k \in DOMAIN gq_orig :
       IsGroupQuarters(k) /\ gq_orig[k].units = 3 /\ get_size(gq_orig[k]) = 5
  /\ \E k \in DOMAIN gq_orig :
       /\ IsGroupQuarters(k)
       /\ get_size(gq_orig[k]) >= 1
       /\ get_size(gq_orig[k]) < gq_orig[k].units

\* The number of places person takes in the occupant lists of all households.
Occurrences(person) ==
  Cardinality({pos \in (DOMAIN hh) \X (1..Len(person_hh)) :
                 /\ pos[2] \in DOMAIN hh[pos[1]].enrollees
                 /\ hh[pos[1]].enrollees[pos[2]] = person})

\* C5: in every state of the partitioning every person is in the occupant list
\* of exactly one household, once, and that household is the one the person's
\* household reference names.
C5_OneHouseholdEach ==
  \A person \in DOMAIN person_hh :
    /\ Occurrences(person) = 1
    /\ person_hh[person] \in DOMAIN hh
    /\ \E k \in DOMAIN hh[person_hh[person]].enrollees :
         hh[person_hh[person]].enrollees[k] = person

\* C5 witness: in the middle of filling a larger unit, one occupant already
\* moved out of the group-quarters household and another still to move.
C5_Witness ==
  /\ gq.pc = "larger_fill"
  /\ gq.j = 1
  /\ gq.j < LargerUnitQuota(gq.min_per_unit)
  /\ \E person \in DOMAIN person_hh :
       person_hh[person] # HouseholdOfPerson(gq_orig, person)

(***************************************************************************)
(* Specification: household shelter scheduling                             *)
(***************************************************************************)

SpecShelterInit == RegistryInit /\ GQIdle /\ HospitalIdle /\ ShelterReady /\ WalkIdle /\ MappingIdle /\ GeoIdle /\ FipsIdle /\ GQFileIdle /\ SetupIdle /\ ReassignIdle /\ LoopsIdle /\ LoadIdle

SpecShelterNext ==
  \/ Shelter_Enter
  \/ Shelter_Next
  \/ Shelter_Exit

SpecShelter == SpecShelterInit /\ [][SpecShelterNext]_vars

(***************************************************************************)
(* Specification: household evacuation scheduling                          *)
(***************************************************************************)

SpecEvacuationInit == RegistryInit /\ GQIdle /\ HospitalIdle /\ EvacuationReady /\ WalkIdle /\ MappingIdle /\ GeoIdle /\ FipsIdle /\ GQFileIdle /\ SetupIdle /\ ReassignIdle /\ LoopsIdle /\ LoadIdle

SpecEvacuationNext ==
  \/ Evac_Enter
  \/ Evac_Next
  \/ Evac_Exit

SpecEvacuation == SpecEvacuationInit /\ [][SpecEvacuationNext]_vars

\* ---------------------------------------------------------------------
\* Specification: select_households_for_evacuation with both per-day
\* probabilities set.
SpecReturnInit == RegistryInit /\ GQIdle /\ HospitalIdle /\ ReturnReady /\ WalkIdle /\ MappingIdle /\ GeoIdle /\ FipsIdle /\ GQFileIdle /\ SetupIdle /\ ReassignIdle /\ LoopsIdle /\ LoadIdle

SpecReturnNext ==
  \/ Evac_Enter
  \/ Evac_Next
  \/ Evac_Exit

SpecReturn == SpecReturnInit /\ [][SpecReturnNext]_vars

\* The first day of the return window after evacuation day j.
FirstReturnDay(j) == IF sched.return_start_sim_day > j THEN sched.return_start_sim_day ELSE j + 1

\* C18: the return day of an evacuating household is drawn per day of the
\* return window with probability HAZEL_disaster_return_prob_per_day, the
\* last day being forced: with return probability 0 a return day is the last
\* day of the window, with return probability 1 it is the first day of the
\* window after the evacuation day.
C18_ReturnDrawnWithReturnProb ==
  sched.op = "evacuation" =>
    \A k \in 1..Len(sheltering) :
      (sheltering[k].evac_date_set /\ sheltering[k].return_date_set) =>
        /\ params.HAZEL_disaster_return_prob_per_day = 0
             => sheltering[k].shelter_end_day = sched.return_end_sim_day
        /\ params.HAZEL_disaster_return_prob_per_day = Prec
             => sheltering[k].shelter_end_day = FirstReturnDay(sheltering[k].shelter_start_day)

\* The return day follows the evacuation probability: with evacuation
\* probability 1 it is the first day of the window after the evacuation day.
ReturnDrawnWithEvacProb ==
  sched.op = "evacuation" =>
    \A k \in 1..Len(sheltering) :
      (sheltering[k].evac_date_set /\ sheltering[k].return_date_set
         /\ params.HAZEL_disaster_evac_prob_per_day = Prec) =>
        sheltering[k].shelter_end_day = FirstReturnDay(sheltering[k].shelter_start_day)

\* ---------------------------------------------------------------------
\* Specification: one run up to the end of assign_hospitals_to_households,
\* get_parameters first, then read_all_places, then the assignment.
SpecMappingInit == RegistryInit /\ GQIdle /\ ShelterIdle /\ WalkIdle /\ MappingReady /\ GeoIdle /\ FipsIdle /\ GQFileIdle /\ SetupIdle /\ ReassignIdle /\ LoopsIdle /\ LoadIdle

SpecMappingNext ==
  \/ GetParameters
  \/ ReadAllPlaces
  \/ Assign_Household
  \/ Assign_Finish

SpecMapping == SpecMappingInit /\ [][SpecMappingNext]_vars

\* ---------------------------------------------------------------------
\* Specification: the readers of read_places, record by record, and the
\* bounding box.
SpecGeoInit ==
  RegistryInit /\ GQIdle /\ HospitalIdle /\ ShelterIdle /\ WalkIdle /\ MappingIdle /\ GeoIdle /\ FipsIdle /\ GQFileIdle /\ SetupIdle /\ ReassignIdle /\ LoopsIdle /\ LoadIdle

SpecGeoNext ==
  \/ Geo_ReadHousehold
  \/ Geo_ReadSchool
  \/ Geo_ReadWorkplace
  \/ Geo_ReadHospital
  \/ Geo_ReadGroupQuarters

SpecGeo == SpecGeoInit /\ [][SpecGeoNext]_vars

\* ---------------------------------------------------------------------
\* Specification: the household and group-quarters records, and the county
\* and census-tract lists.
SpecFipsInit ==
  RegistryInit /\ GQIdle /\ HospitalIdle /\ ShelterIdle /\ WalkIdle /\ MappingIdle /\ GeoIdle /\ FipsIdle /\ GQFileIdle /\ SetupIdle /\ ReassignIdle /\ LoopsIdle /\ LoadIdle

SpecFipsNext ==
  \/ Fips_ReadHousehold
  \/ Fips_ReadGroupQuarters

SpecFips == SpecFipsInit /\ [][SpecFipsNext]_vars

\* ---------------------------------------------------------------------
\* Specification: setup_group_quarters after a load with colliding unit
\* labels.
SpecGQCollideInit ==
  RegistryInit /\ GQLoadedColliding /\ HospitalIdle /\ ShelterIdle /\ WalkIdle /\ MappingIdle /\ GeoIdle /\ FipsIdle /\ GQFileIdle /\ SetupIdle /\ ReassignIdle /\ LoopsIdle /\ LoadIdle

SpecGQCollide == SpecGQCollideInit /\ [][SpecGQNext]_vars

\* ---------------------------------------------------------------------
\* Specification: the group-quarters files, record by record.
SpecGQFileInit ==
  RegistryInit /\ GQIdle /\ HospitalIdle /\ ShelterIdle /\ WalkIdle /\ MappingIdle /\ GeoIdle /\ FipsIdle /\ GQFileReady /\ SetupIdle /\ ReassignIdle /\ LoopsIdle /\ LoadIdle

SpecGQFileNext ==
  \/ ReadGQFile_Open
  \/ ReadGQFile_Record
  \/ ReadGQFile_Eof

SpecGQFile == SpecGQFileInit /\ [][SpecGQFileNext]_vars

\* ---------------------------------------------------------------------
\* Specification: setup_households on a loaded population, over the
\* incomes of the households.
SpecSetupInit ==
  RegistryInit /\ GQIdle /\ HospitalIdle /\ ShelterIdle /\ WalkIdle /\ MappingIdle /\ GeoIdle /\ FipsIdle /\ GQFileIdle /\ SetupReady(0..MaxIncome, {PlainPerson}) /\ ReassignIdle /\ LoopsIdle /\ LoadIdle

SpecSetupNext ==
  \/ Setup_House
  \/ Setup_Sort
  \/ Setup_Select

SpecSetup == SpecSetupInit /\ [][SpecSetupNext]_vars

\* ---------------------------------------------------------------------
\* Specification: setup_households on a loaded population, over the ages
\* and relationships of the occupants.
SpecHouseholderInit ==
  RegistryInit /\ GQIdle /\ HospitalIdle /\ ShelterIdle /\ WalkIdle /\ MappingIdle /\ GeoIdle /\ FipsIdle /\ GQFileIdle /\ SetupReady({0}, SetupPersons) /\ ReassignIdle /\ LoopsIdle /\ LoadIdle

SpecHouseholder == SpecHouseholderInit /\ [][SpecSetupNext]_vars

\* ---------------------------------------------------------------------
\* Specification: reassign_workers on loaded places.
SpecReassignInit ==
  RegistryInit /\ GQIdle /\ HospitalIdle /\ ShelterIdle /\ WalkIdle /\ MappingIdle /\ GeoIdle /\ FipsIdle /\ GQFileIdle /\ SetupIdle /\ ReassignReady /\ LoopsIdle /\ LoadIdle

SpecReassignNext ==
  \/ Reassign_Enter
  \/ Reassign_NotATarget
  \/ Reassign_Outside
  \/ Reassign_NotFound
  \/ Reassign_Transfer
  \/ Reassign_Exit

SpecReassign == SpecReassignInit /\ [][SpecReassignNext]_vars

\* ---------------------------------------------------------------------
\* Specification: the loops of shelter_household and of
\* select_households_for_evacuation, draw by draw.  The program is
\* sequential: a step that can be taken is taken.
SpecLoopsInit ==
  RegistryInit /\ GQIdle /\ HospitalIdle /\ ShelterIdle /\ WalkIdle /\ MappingIdle /\ GeoIdle /\ FipsIdle /\ GQFileIdle /\ SetupIdle /\ ReassignIdle /\ LoopsReady /\ LoadIdle

SpecLoopsNext ==
  \/ SH_DrawDelay
  \/ SH_EarlyIterate
  \/ SH_EarlyLeave
  \/ SH_DrawDuration
  \/ SH_DecayIterate
  \/ SH_DecayLeave
  \/ EV_Household
  \/ EV_Day
  \/ EV_NoEvacuation
  \/ EV_ReturnDay
  \/ EV_ReturnOver

SpecLoopsFair == SpecLoopsInit /\ [][SpecLoopsNext]_vars /\ WF_vars(SpecLoopsNext)

\* ---------------------------------------------------------------------
\* Specification: read_all_places, step by step.
SpecLoadInit ==
  RegistryInit /\ GQIdle /\ HospitalIdle /\ ShelterIdle /\ WalkIdle /\ MappingIdle /\ GeoIdle /\ FipsIdle /\ GQFileIdle /\ SetupIdle /\ ReassignIdle /\ LoopsIdle /\ LoadReady

SpecLoadNext ==
  \/ RA_ReadPlaces
  \/ RA_CreateLayers
  \/ RA_AddHousehold
  \/ RA_AddWorkplaces
  \/ RA_AddHospitals
  \/ RA_Complete

SpecLoad == SpecLoadInit /\ [][SpecLoadNext]_vars

\* ---------------------------------------------------------------------
\* Specification: the selection tail over every small candidate list.
SpecWalkInit == RegistryInit /\ GQIdle /\ HospitalIdle /\ ShelterIdle /\ WalkReady /\ MappingIdle /\ GeoIdle /\ FipsIdle /\ GQFileIdle /\ SetupIdle /\ ReassignIdle /\ LoopsIdle /\ LoadIdle

SpecWalkNext == WalkReturn

SpecWalk == SpecWalkInit /\ [][SpecWalkNext]_vars

\* hosp_probs[i] after the normalisation loop, for the list in walk.
WalkProbs ==
  LET total == SeqSum([i \in DOMAIN walk.cands |-> walk.cands[i].cur_prob])
  IN [i \in DOMAIN walk.cands |->
        IF total > 0 THEN Normalised(walk.cands[i].cur_prob, total)
        ELSE walk.cands[i].cur_prob]

\* cum_prob after candidate i (0 before the first).
CumProb(i) == SeqSum(SubSeq(WalkProbs, 1, i))

FirstExceedingWhenAny ==
  (walk.pc = "done" /\ walk.ret.number_possible_hospitals > 0
     /\ \E i \in DOMAIN walk.cands : walk.rand < CumProb(i)) =>
    /\ walk.rand < CumProb(walk.ret.result)
    /\ \A i \in 1..(walk.ret.result - 1) : ~(walk.rand < CumProb(i))

\* C6: once prepare_primary_care_assignment has initialised the counters, every
\* hospital has current_assigned_size <= target_assigned_size in every state
\* of the primary-care assignment phase.
C6_PanelCapacityBound ==
  panel.initialized =>
    \A i \in 1..Len(hosp) : panel.current[i] <= panel.total[i]

\* C7: a selection (catchment, daily healthcare facility, primary care) whose
\* candidates are all ineligible (probability_total = 0) returns NULL, and no
\* selection returns a candidate whose weight is zero.
C7_NeverZeroWeight ==
  sel.status = "returned" =>
    /\ (sel.probability_total = 0 => sel.result = NULL)
    /\ (sel.result # NULL => sel.cur_prob > 0)

\* The first half of C7 alone: with probability_total = 0 the result is NULL.
AllIneligibleReturnsNull ==
  (sel.status = "returned" /\ sel.probability_total = 0) => sel.result = NULL

\* The households select_households_for_shelter marked as sheltering.
Sheltered == {k \in 1..Len(sheltering) : sheltering[k].shelter}

C9_ShelterBounds ==
  \A k \in 1..Len(sheltering) :
    sheltering[k].times_scheduled > 0 =>
      /\ sheltering[k].shelter_start_day >= 0
      /\ sheltering[k].shelter_duration >= 1
      /\ sheltering[k].shelter_end_day
           = sheltering[k].shelter_start_day + sheltering[k].shelter_duration
      /\ sheltering[k].shelter_end_day > sheltering[k].shelter_start_day

\* A household scheduled with both parameters positive, a start day the early
\* loop lowered to 0 or the clamp raised to 0, and a duration above 1.
C9_Witness ==
  /\ sched.op = "shelter"
  /\ params.Early_shelter_rate > 0 /\ params.Shelter_decay_rate > 0
  /\ \E k \in 1..Len(sheltering) :
       /\ sheltering[k].times_scheduled > 0
       /\ sheltering[k].shelter_start_day = 0
       /\ sheltering[k].shelter_duration > 1

\* C10: a household for which select_households_for_evacuation set both an
\* evacuation day and a return day has its return day strictly after its
\* evacuation day, whatever the evacuation and return windows.
C10_ReturnAfterEvacuation ==
  sched.op = "evacuation" =>
    \A k \in 1..Len(sheltering) :
      (sheltering[k].evac_date_set /\ sheltering[k].return_date_set) =>
        sheltering[k].shelter_end_day > sheltering[k].shelter_start_day

\* A household evacuated and returned although the return window opens no
\* later than its evacuation day.
C10_Witness ==
  /\ sched.op = "evacuation"
  /\ \E k \in 1..Len(sheltering) :
       /\ sheltering[k].evac_date_set /\ sheltering[k].return_date_set
       /\ sched.return_start_sim_day <= sheltering[k].shelter_start_day

\* C14: get_place_from_label returns NULL for the sentinel label "-1" and for
\* every label that was never registered, and the call changes no member of
\* the registry (it ends by returning, never by aborting).
C14_LookupMissReturnsNull ==
  [][call'.op = "get_place_from_label" =>
       /\ RegistryFrame
       /\ (call'.label = "-1" \/ call'.label \notin DOMAIN place_label_map)
            => call'.ret = NULL]_vars

\* A lookup of the sentinel after a place labelled "-1" was registered, which
\* returned NULL.
C14_Witness ==
  /\ call.op = "get_place_from_label"
  /\ call.label = "-1"
  /\ "-1" \in DOMAIN place_label_map
  /\ call.ret = NULL

\* C16: a selection call made with no hospital candidate at all ends in an
\* abort of the run; a call with candidates that are all ineligible returns
\* no assignment (NULL) and the run goes on.
C16_FatalVersusRecoverable ==
  walk.pc = "done" =>
    /\ Len(walk.cands) = 0 => walk.ret.status = "aborted"
    /\ (Len(walk.cands) > 0 /\ \A i \in DOMAIN walk.cands : walk.cands[i] = NotPossible) =>
         (walk.ret.status = "returned" /\ walk.ret.result = NULL)

\* A call over several hospitals, none of them eligible, that returned NULL.
C16_Witness ==
  /\ walk.pc = "done"
  /\ Len(walk.cands) > 1
  /\ \A i \in DOMAIN walk.cands : walk.cands[i] = NotPossible
  /\ walk.ret.status = "returned"
  /\ walk.ret.result = NULL

\* The same over Hospital objects: a call with no hospital aborts, a call
\* with hospitals of which none is possible returns NULL.
FatalVersusRecoverableOverHospitals ==
  sel.op # "none" =>
    /\ Len(hosp) = 0 => sel.status = "aborted"
    /\ (Len(hosp) > 0 /\ sel.number_possible_hospitals = 0) =>
         (sel.status = "returned" /\ sel.result = NULL)

\* The eligibility predicate of catchment mode, for hospital h and the flags q
\* of the call.
CatchmentEligible(h, q) ==
  /\ h.distance > 0
  /\ h.subtype \notin {"clinic", "mobile"}
  /\ h.open
  /\ h.occupied_bed_count < h.bed_count
  /\ q.check_insurance => h.accepts_insurance

\* The eligibility predicate of primary-care mode, for hospital h with the
\* given current and target assigned sizes and the flags q of the call.
PrimaryCareEligible(h, current, target, q) ==
  /\ h.distance > 0
  /\ h.open
  /\ current < target
  /\ q.use_search_radius_limit => h.distance <= q.Hospitalization_radius
  /\ q.check_insurance => h.accepts_insurance

\* Whether the hospital the last call returned satisfied the predicate of the
\* call's mode when it was returned (in primary-care mode the caller has
\* incremented its current assigned size since).
ReturnedIsEligible ==
  LET r == sel.result
  IN /\ sel.op = "catchment" => CatchmentEligible(hosp[r], query)
     /\ sel.op = "primary" =>
          PrimaryCareEligible(hosp[r], panel.current[r] - 1, panel.total[r], query)

\* C20: a catchment or primary-care selection only ever returns a hospital
\* that satisfies its mode's eligibility predicate.
C20_OnlyEligibleReturned ==
  (sel.status = "returned" /\ sel.result # NULL) => ReturnedIsEligible

\* C20 for every returned hospital but the last of the candidate list.
EligibleUnlessLast ==
  (sel.status = "returned" /\ sel.result # NULL /\ sel.result # Len(hosp))
    => ReturnedIsEligible

\* The mapping file the run started with names a registered hospital for
\* every household.
FileComplete ==
  /\ asg.file0.present
  /\ \A k \in 1..Len(asg.households) :
       /\ asg.households[k].label \in DOMAIN asg.file0.pairs
       /\ asg.file0.pairs[asg.households[k].label] \in DOMAIN hosp_label_hosp_id_map

\* C11: a run with a complete mapping file that executes get_parameters,
\* read_all_places and assign_hospitals_to_households binds every household
\* to the hospital the file names for it, consumes no random draw in the
\* catchment sampling and does not rewrite the file.
C11_MappingRoundTrip ==
  (asg.pc = "done" /\ FileComplete) =>
    /\ \A k \in 1..Len(asg.households) :
         asg.households[k].visitation_hospital
           = hosp_label_hosp_id_map[asg.file0.pairs[asg.households[k].label]] + 1
    /\ asg.draws = 0
    /\ map_file.writes = 0

\* C12: assign_hospitals_to_households never goes past a household whose
\* visitation hospital is unset, and so never finishes with one: a household
\* that resolves to no hospital (a household of zero occupants among them)
\* ends the run.
C12_EveryHouseholdResolves ==
  /\ asg.pc \in {"loaded", "done"} =>
       \A k \in 1..asg.i : asg.households[k].visitation_hospital # NULL
  /\ asg.pc = "done" => asg.i = Len(asg.households)

\* The run aborted at a household of zero occupants, hospitals being there.
C12_Witness ==
  /\ asg.pc = "aborted"
  /\ Len(hosp) > 0
  /\ asg.i < Len(asg.households)
  /\ asg.households[asg.i + 1].size = 0
  /\ asg.households[asg.i + 1].visitation_hospital = NULL

\* The pairs household label -> label of its visitation hospital.
ResultingPairs ==
  [l \in {asg.households[k].label : k \in 1..Len(asg.households)} |->
     LET k == CHOOSE j \in 1..Len(asg.households) : asg.households[j].label = l
     IN HospLabel(asg.households[k].visitation_hospital)]

InBox(p) ==
  /\ p.lat # 0 => (min_lat <= p.lat /\ p.lat <= max_lat)
  /\ p.lon # 0 => (min_lon <= p.lon /\ p.lon <= max_lon)

\* C13: the bounding box contains the non-zero coordinates of every
\* registered place of every kind (households, schools, workplaces,
\* hospitals, group quarters); exactly-zero coordinates are ignored.
C13_BoxContainsEveryPlace == \A p \in geo_places : InBox(p)

\* The bounding box contains the places of the readers that call
\* update_geo_boundaries.
BoxContainsHouseholdsHospitalsGQ ==
  \A p \in geo_places : p.kind \in {"household", "hospital", "group_quarters"} => InBox(p)

\* The distinct 5-digit and 11-digit prefixes of the fips fields read.
CountyPrefixes == {SubSeq(r.field, 1, CountyDigits) : r \in fips_seen}
TractPrefixes == {SubSeq(r.field, 1, TractDigits) : r \in fips_seen}

\* list holds exactly one object per prefix, and map points each prefix at
\* the index of its own object.
OnePerPrefix(prefixes, list, map) ==
  /\ Len(list) = Cardinality(prefixes)
  /\ DOMAIN map = {ScanDigits(q, 0) : q \in prefixes}
  /\ \A q \in prefixes :
       /\ Cardinality({i \in DOMAIN list : list[i] = ScanDigits(q, 0)}) = 1
       /\ list[map[ScanDigits(q, 0)] + 1] = ScanDigits(q, 0)

\* C15: after any sequence of household and group-quarters records there is
\* exactly one County per distinct 5-digit prefix and one Census_Tract per
\* distinct 11-digit prefix of the fips fields read so far (so each exists
\* from the first record carrying its prefix on), and fips_to_county_map and
\* fips_to_census_tract_map point each prefix at its own object.
C15_OneObjectPerPrefix ==
  /\ OnePerPrefix(CountyPrefixes, counties, fips_to_county_map)
  /\ OnePerPrefix(TractPrefixes, census_tracts, fips_to_census_tract_map)

\* A household record and a group-quarters record were read that share a
\* county and differ in the tract: one County and two Census_Tract objects.
C15_Witness ==
  /\ Cardinality({r.field : r \in fips_seen}) = 2
  /\ {r.reader : r \in fips_seen} = {"household", "group_quarters"}
  /\ Len(counties) = 1
  /\ Len(census_tracts) = 2

\* C26: whatever the disaster days and offsets that pass the entry guard and
\* whatever the draws, select_households_for_evacuation never aborts on
\* assert(return_date_set) and never leaves a household with an evacuation
\* day and no return day.
C26_EvacuationAlwaysReturns ==
  sched.op = "evacuation" =>
    /\ sched.pc # "aborted"
    /\ \A k \in 1..Len(sheltering) :
         sheltering[k].evac_date_set => sheltering[k].return_date_set

\* A household with an evacuation day has a return day whenever the return
\* window ends after that day.
ReturnsWhenWindowEndsLater ==
  sched.op = "evacuation" =>
    \A k \in 1..Len(sheltering) :
      (sheltering[k].evac_date_set
         /\ sched.return_start_sim_day <= sched.return_end_sim_day
         /\ sched.return_end_sim_day > sheltering[k].shelter_start_day)
        => sheltering[k].return_date_set

\* The occupants from..to of the group-quarters household k as loaded.
OriginalOccupants(k, from, to) == SubSeq(gq_orig[k].enrollees, from, to)

\* C22: after setup_group_quarters, with min_per_unit = size div units and
\* larger_units = size mod units, the original household holds its first
\* min_per_unit occupants, each of the next units - larger_units - 1 unit
\* households the next min_per_unit, and each of the following larger_units
\* unit households the next min_per_unit + 1, in the original occupant order.
C22_ExactUnitLayout ==
  gq.pc = "done" =>
    \A k \in DOMAIN gq_orig :
      IsGroupQuarters(k) =>
        LET size == get_size(gq_orig[k])
            units == gq_orig[k].units
            min_per_unit == size \div units
            larger_units == size % units
            smaller_units == units - larger_units
        IN /\ hh[k].enrollees = OriginalOccupants(k, 1, min_per_unit)
           /\ \A u \in 1..(smaller_units - 1) :
                hh[k + u].enrollees
                  = OriginalOccupants(k, u * min_per_unit + 1, (u + 1) * min_per_unit)
           /\ \A v \in 1..larger_units :
                hh[k + smaller_units - 1 + v].enrollees
                  = OriginalOccupants(k,
                      smaller_units * min_per_unit + (v - 1) * (min_per_unit + 1) + 1,
                      smaller_units * min_per_unit + v * (min_per_unit + 1))

\* Partitioning has finished for a group quarters of three units and four
\* occupants: one stays, one smaller unit of one, one larger unit of two.
C22_Witness ==
  /\ gq.pc = "done"
  /\ \E k \in DOMAIN gq_orig :
       /\ IsGroupQuarters(k) /\ gq_orig[k].units = 3 /\ get_size(gq_orig[k]) = 4
       /\ get_size(hh[k]) = 1 /\ get_size(hh[k + 1]) = 1 /\ get_size(hh[k + 2]) = 2

\* The unit households add_place created for the group-quarters record whose
\* household is at index k: the run of unit households right after it.
CreatedUnits(k) ==
  {h \in DOMAIN gq_orig :
     /\ h > k
     /\ \A m \in (k + 1)..h : gq_orig[m].gq /\ gq_orig[m].units = NoUnits}

\* C28: setup_group_quarters dereferences no household index at or beyond
\* num_households, and an occupant is only ever in the household it was
\* loaded in or in a unit household created for the same group-quarters
\* record, whatever was loaded, group-quarters records whose unit labels
\* were already registered included.
C28_StaysWithinOwnUnits ==
  /\ gq.pc # "crashed"
  /\ gq.p <= Len(hh)
  /\ \A person \in DOMAIN person_hh :
       LET k == HouseholdOfPerson(gq_orig, person)
       IN \/ person_hh[person] = k
          \/ IsGroupQuarters(k) /\ person_hh[person] \in CreatedUnits(k)

\* C29: what a group-quarters record is given depends on its own type and
\* size fields only: any two records read with the same type code and the
\* same capacity, in whatever file and after whatever records, are given the
\* same subtype and the same number of units.
C29_SubtypeFromOwnFields ==
  \A i, j \in DOMAIN gqf.lines :
    gqf.lines[i].type = gqf.lines[j].type /\ gqf.lines[i].capacity = gqf.lines[j].capacity
      => /\ gqf.lines[i].subtype = gqf.lines[j].subtype
         /\ gqf.lines[i].units = gqf.lines[j].units

\* What does hold: the number of units is a function of the record's own
\* fields, and so is the subtype of a record with a known type code.
UnitsAndKnownSubtypeFromOwnFields ==
  \A i \in DOMAIN gqf.lines :
    LET l == gqf.lines[i]
    IN /\ l.units = UnitsOfRecord(l.type, l.capacity, gqf.mean_size)
       /\ l.type \in KnownGQTypes => l.subtype = SubtypeOfCode(l.type)

\* The positions of the householders among the occupants.
Householders(enrollees) == {j \in DOMAIN enrollees : enrollees[j].householder}

\* C27: once the loop of setup_households is over, every household with at
\* least one occupant has exactly one householder: the first occupant that
\* was one when loaded, if any, and otherwise the oldest occupant, the
\* first among those of that age; nobody else is a householder, and the
\* run was not aborted.
C27_OneHouseholder ==
  /\ setup.pc # "aborted"
  /\ setup.pc \in {"sorted", "done"} =>
       \A i \in DOMAIN setup.households :
         LET now == setup.households[i].enrollees
             was == setup.loaded[setup.households[i].id].enrollees
         IN Len(now) > 0 =>
              /\ Cardinality(Householders(now)) = 1
              /\ \A head \in Householders(now) :
                   IF Householders(was) # {}
                   THEN \A k \in Householders(was) : head <= k
                   ELSE /\ \A k \in DOMAIN was : was[k].age <= was[head].age
                        /\ \A k \in 1..(head - 1) : was[k].age < was[head].age

\* setup_households ran on a household of two occupants of the same age,
\* neither a householder: the first is now the householder.
C27_Witness ==
  /\ setup.pc = "done"
  /\ \E i \in DOMAIN setup.households :
       LET now == setup.households[i].enrollees
           was == setup.loaded[setup.households[i].id].enrollees
       IN /\ Len(was) = 2
          /\ Householders(was) = {}
          /\ was[1].age = was[2].age
          /\ Householders(now) = {1}

\* Of two households both householders when loaded, the second is demoted.
DemotionReached ==
  /\ setup.pc = "done"
  /\ \E i \in DOMAIN setup.households :
       /\ Householders(setup.loaded[setup.households[i].id].enrollees) = {1, 2}
       /\ Householders(setup.households[i].enrollees) = {1}

C25_OneSelectionAtMost ==
  /\ Len(setup.called) <= 1
  /\ setup.pc # "done" => setup.called = <<>>
  /\ setup.pc = "done" =>
       /\ setup.Enable_Household_Shelter => setup.called = <<"shelter">>
       /\ (~setup.Enable_Household_Shelter /\ setup.Enable_HAZEL) => setup.called = <<"evacuation">>
       /\ (~setup.Enable_Household_Shelter /\ ~setup.Enable_HAZEL) => setup.called = <<>>

\* Both flags were set and the shelter selection alone was called.
C25_Witness ==
  /\ setup.pc = "done"
  /\ setup.Enable_Household_Shelter
  /\ setup.Enable_HAZEL
  /\ setup.called = <<"shelter">>
  /\ Len(setup.households) > 0

\* The loop is at a target that is outside the grid, or for which no
\* workplace of the grid has the desired number of workers.
ReassignmentFails ==
  /\ rw.pc = "loop"
  /\ rw.p < Len(rw.places)
  /\ rw.places[rw.p + 1].kind = TargetKind(rw.op)
  /\ \/ ~rw.places[rw.p + 1].inside
     \/ \A w \in DOMAIN rw.places :
          (w # rw.p + 1 /\ rw.places[w].kind \in {"workplace", "gq_workplace"} /\ rw.places[w].inside)
            => rw.places[w].workers <
                 DesiredStaff(rw.fixed_staff, RWSize(rw.places[rw.p + 1]), rw.staff_ratio)

\* C23: when the reassignment fails for a target, the step that handles it
\* changes the workers of no place, and the loop goes on with the next
\* place.
C23_FailureIsNotFatal ==
  [][ReassignmentFails =>
       /\ rw'.places = rw.places
       /\ rw'.pc = "loop"
       /\ rw'.p = rw.p + 1]_vars

\* A target inside the grid found no workplace although one with workers
\* exists, and the loop has a further place to go on with.
C23_Witness ==
  /\ rw.pc = "loop"
  /\ rw.last.outcome = "not_found"
  /\ rw.p < Len(rw.places)
  /\ \E w \in DOMAIN rw.places : rw.places[w].kind = "workplace" /\ rw.places[w].workers > 0

\* A target outside the grid was passed over.
OutsideReached == rw.pc = "loop" /\ rw.last.outcome = "outside"

\* The iterations and draws made so far are within their bounds: the early
\* loop within the start day drawn (none if it is not positive), the decay
\* loop within Shelter_duration_mean - 1 (none if the mean is below 1), the
\* draws for a household within the lengths of the two windows.
LoopBounds ==
  /\ lp.early_iterations <= (IF lp.drawn_start_day > 0 THEN lp.drawn_start_day ELSE 0)
  /\ lp.decay_iterations <= (IF lp.Shelter_duration_mean > 1 THEN lp.Shelter_duration_mean - 1 ELSE 0)
  /\ lp.draws <= (lp.evac_end_sim_day - lp.evac_start_sim_day + 1)
                 + (IF lp.return_end_sim_day >= lp.return_start_sim_day
                    THEN lp.return_end_sim_day - lp.return_start_sim_day + 1 ELSE 0)

\* C30: shelter_household and the per-household loops of
\* select_households_for_evacuation terminate whatever the draws and the
\* parameters, and on the way the early loop makes at most as many
\* iterations as the start day drawn, the decay loop at most
\* Shelter_duration_mean - 1, and the evacuation of a household a bounded
\* number of draws.
C30_LoopsTerminate == []LoopBounds /\ <>(lp.pc \in {"done", "aborted"})

\* The early loop ran with a rate of 1 down from a start day of 2, and the
\* call finished.
C30_Witness ==
  /\ lp.op = "shelter" /\ lp.pc = "done"
  /\ lp.Early_shelter_rate = Prec
  /\ lp.drawn_start_day = 2 /\ lp.early_iterations = 2

\* The decay loop ran to its bound though every draw was above the rate.
DecayBoundReached ==
  /\ lp.op = "shelter" /\ lp.pc = "done"
  /\ lp.Shelter_duration_mean = MaxMean
  /\ lp.decay_iterations = MaxMean - 1

\* A household took every draw of both windows.
AllDrawsReached ==
  /\ lp.op = "evacuation" /\ lp.pc \in {"done", "aborted"}
  /\ lp.draws = (lp.evac_end_sim_day + 1) + (lp.return_end_sim_day - lp.return_start_sim_day + 1)
  /\ lp.evac_end_sim_day > 0 /\ lp.return_end_sim_day > lp.return_start_sim_day

\* The files of every deme.
FilesOfDemes == SeqSum(ra.Demes)

\* C21: the regional layer is created at most once, and when it exists every
\* file of every deme has been read and its extent is the bounding box as
\* it is at the end; a household has a patch, or is in one, only once the
\* layer exists, it is inserted at most once, and its back-reference is the
\* patch it was inserted in; load_completed is true only when the layer
\* exists, every household is in exactly one patch, and the workplaces and
\* hospitals have been added to the layer.
C21_GridAfterLoad ==
  /\ ra.regions_created <= 1
  /\ ra.Simulation_Region.exists =>
       /\ ra.regions_created = 1
       /\ ra.files_read = FilesOfDemes
       /\ ra.Simulation_Region.min_lat = ra.box.min_lat
       /\ ra.Simulation_Region.max_lat = ra.box.max_lat
  /\ (ra.inserted # <<>> \/ \E h \in DOMAIN ra.households : ra.households[h].patch # {}) =>
       ra.Simulation_Region.exists
  /\ \A h \in DOMAIN ra.households :
       LET events == {e \in DOMAIN ra.inserted : ra.inserted[e].household = h}
       IN /\ Cardinality(events) <= 1
          /\ ra.households[h].patch = {ra.inserted[e].patch : e \in events}
  /\ ra.load_completed =>
       /\ ra.Simulation_Region.exists
       /\ \A h \in DOMAIN ra.households : Cardinality(ra.households[h].patch) = 1
       /\ ra.Simulation_Region.workplaces = ra.workplaces
       /\ ra.Simulation_Region.hospitals = ra.hospitals

\* A load of two files completed: the household of the second file widened
\* the box, and the layer has the wider extent.
C21_Witness ==
  /\ ra.load_completed
  /\ ra.files_read = 2
  /\ Len(ra.households) = 2
  /\ ra.households[1].lat < ra.households[2].lat
  /\ ra.households[1].patch # {}
  /\ ra.Simulation_Region.max_lat = ra.households[2].lat

\* A household at a coordinate of 0, which the box ignores, has no patch:
\* the run is aborted.
LoadAbortReached == ra.pc = "aborted"

====
